---- MODULE Spec2Model ----
(***************************************************************************)
(* Technical-indicator engine of the limit-order DEX dashboard             *)
(* (AdvancedChart: calculateMA, calculateRSI, calculateBollingerBands,     *)
(* calculateMACD, calculateStochastic, calculateADX), the settings dialog  *)
(* that validates the indicator parameters (IndicatorSettings), the preset *)
(* store behind it (usePresets), the chart's two enrichment paths, and the *)
(* contracts LimitOrderDEX and LimitOrderKeeper with the test suite's      *)
(* mocks.                                                                  *)
(*                                                                         *)
(* Arrays are functions over 0..L-1, so indices read as in the source.     *)
(* A JavaScript number is modelled exactly: a finite value is a reduced    *)
(* fraction, and the non-finite results of IEEE division (NaN, +Infinity,  *)
(* -Infinity) are kept as values of their own.  null is a value too.       *)
(* Rounding of finite values is not modelled.                              *)
(***************************************************************************)
EXTENDS Integers, Sequences, FiniteSets, TLC

VARIABLES series, out, heap, localParams, errors, presets, selectedPreset, storage, pending,
          isPreviewEnabled, onPreview, params, isOpen, download, delivered, event, steps,
          orders, nextOrderId, balances, priceFeeds, answers, lastOrderIdChecked,
          maxOrdersToCheck, released, call, chartData, indicatorParams, activeIndicators

vars == <<series, out, heap, localParams, errors, presets, selectedPreset, storage, pending,
          isPreviewEnabled, onPreview, params, isOpen, download, delivered, event, steps,
          orders, nextOrderId, balances, priceFeeds, answers, lastOrderIdChecked,
          maxOrdersToCheck, released, call, chartData, indicatorParams, activeIndicators>>

(* ------------------------------ bounds --------------------------------- *)

MaxLen == 4
MaxClose == 3
MaxMacdPeriod == 3
MaxBars == 3
MaxPrice == 2
MaxStochPeriod == 2
MaxSmooth == 2
MaxAdxBars == 6
MaxAdxPeriod == 3
MaxAdxPrice == 2
MaxBBLen == 6
MaxBBClose == 2
MaxBBPeriod == 6
MaxEdits == 2
MaxOps == 3
MaxSteps == 3
MaxOrders == 2
\* type(uint256).max of the word the contracts are modelled with
UintMax == 15
\* the fixed-point unit of a price (1e18) in that word
PriceScale == 3

(* --------------------------- JS numbers -------------------------------- *)

Abs(x) == IF x < 0 THEN -x ELSE x

Max2(a, b) == IF a >= b THEN a ELSE b

RECURSIVE GCD(_, _)
GCD(a, b) == IF b = 0 THEN a ELSE GCD(b, a % b)

Null == <<"null", 0, 1>>

NaN == <<"nan", 0, 1>>

Inf(s) == <<"inf", s, 1>>

Num(n, d) ==
  LET g == GCD(Abs(n), Abs(d))
      s == IF d < 0 THEN -1 ELSE 1
  IN <<"num", (s * n) \div g, (s * d) \div g>>

Val(n) == <<"num", n, 1>>

IsNull(x) == x[1] = "null"

IsNaN(x) == x[1] = "nan"

IsFinite(x) == x[1] = "num"

Sign(x) == IF x[2] > 0 THEN 1 ELSE IF x[2] < 0 THEN -1 ELSE 0

Neg(x) == IF IsFinite(x) THEN <<"num", -x[2], x[3]>>
          ELSE IF IsNaN(x) THEN NaN ELSE Inf(-x[2])

Add(x, y) ==
  IF IsNaN(x) \/ IsNaN(y) THEN NaN
  ELSE IF IsFinite(x) /\ IsFinite(y) THEN Num(x[2] * y[3] + y[2] * x[3], x[3] * y[3])
  ELSE IF IsFinite(x) THEN y
  ELSE IF IsFinite(y) THEN x
  ELSE IF x[2] = y[2] THEN x ELSE NaN

Sub(x, y) == Add(x, Neg(y))

Mul(x, y) ==
  IF IsNaN(x) \/ IsNaN(y) THEN NaN
  ELSE IF IsFinite(x) /\ IsFinite(y) THEN Num(x[2] * y[2], x[3] * y[3])
  ELSE IF Sign(x) = 0 \/ Sign(y) = 0 THEN NaN
  ELSE Inf(Sign(x) * Sign(y))

Div(x, y) ==
  IF IsNaN(x) \/ IsNaN(y) THEN NaN
  ELSE IF IsFinite(x) /\ IsFinite(y) THEN
         IF y[2] # 0 THEN Num(x[2] * y[3], x[3] * y[2])
         ELSE IF x[2] = 0 THEN NaN ELSE Inf(Sign(x))
  ELSE IF IsFinite(x) THEN Val(0)
  ELSE IF IsFinite(y) THEN Inf(IF Sign(y) < 0 THEN -Sign(x) ELSE Sign(x))
  ELSE NaN

\* x < y as JavaScript compares numbers: false when either is NaN
Lt(x, y) ==
  IF IsNaN(x) \/ IsNaN(y) THEN FALSE
  ELSE IF IsFinite(x) /\ IsFinite(y) THEN x[2] * y[3] < y[2] * x[3]
  ELSE IF IsFinite(x) THEN y[2] > 0
  ELSE IF IsFinite(y) THEN x[2] < 0
  ELSE x[2] < y[2]

\* x <= y, false when either is NaN (used to state ranges)
Le(x, y) == ~IsNaN(x) /\ ~IsNaN(y) /\ ~Lt(y, x)

AbsV(x) == IF Lt(x, Val(0)) THEN Neg(x) ELSE x

\* truthiness of a number-or-null: null, NaN and 0 are falsy
Truthy(x) == ~IsNull(x) /\ ~IsNaN(x) /\ ~(IsFinite(x) /\ x[2] = 0)

(* ------------------------------ arrays --------------------------------- *)

NoArray == [i \in {} |-> Null]

Length(a) == Cardinality(DOMAIN a)

\* sum of f[lo..hi-1], as Array.slice(lo, hi).reduce((acc, c) => acc + c, 0)
RECURSIVE SumSlice(_, _, _)
SumSlice(f, lo, hi) == IF hi <= lo THEN Val(0) ELSE Add(SumSlice(f, lo, hi - 1), f[hi - 1])

closes(data) == [i \in DOMAIN data |-> Val(data[i].close)]

(* ------------------------- the dialog at rest --------------------------- *)

\* the identity of a parameter object: <<origin, k, j, indicator>>
Ref(origin, k, j, indicator) == <<origin, k, j, indicator>>

NoBundle == [i \in {} |-> Ref("none", 0, 0, "none")]

EmptyMap == [i \in {} |-> 0]

\* localStorage under CUSTOM_PRESETS_KEY: no item, or a JSON text
NoItem == [present |-> FALSE, json |-> <<>>]

Item(json) == [present |-> TRUE, json |-> json]

dialogVars ==
  <<heap, localParams, errors, presets, selectedPreset, storage, pending, isPreviewEnabled,
    onPreview, params, isOpen, download, delivered, event, steps>>

NoSelection == [selected |-> FALSE, name |-> ""]

Selected(name) == [selected |-> TRUE, name |-> name]

NoPending == [armed |-> FALSE, args |-> NoBundle]

Armed(bundle) == [armed |-> TRUE, args |-> bundle]

NoDelivery == [via |-> "none", bundle |-> EmptyMap]

Delivery(via, values) == [via |-> via, bundle |-> values]

Event(op, arg) == [op |-> op, arg |-> arg]

\* the dialog is not mounted while a calculator is exercised
NoDialog ==
  /\ heap = EmptyMap
  /\ localParams = NoBundle
  /\ errors = EmptyMap
  /\ presets = <<>>
  /\ selectedPreset = NoSelection
  /\ storage = NoItem
  /\ pending = NoPending
  /\ isPreviewEnabled = TRUE
  /\ onPreview = FALSE
  /\ params = NoBundle
  /\ isOpen = FALSE
  /\ download = NoItem
  /\ delivered = NoDelivery
  /\ event = Event("none", <<>>)
  /\ steps = 0

(* ----------------------- the contracts at rest -------------------------- *)

chainVars ==
  <<orders, nextOrderId, balances, priceFeeds, answers, lastOrderIdChecked, maxOrdersToCheck,
    released, call>>

\* address(0)
ZeroAddress == "0x0"

\* an entry of the orders mapping that was never written: every field has
\* the default value of its type, and the first member of OrderStatus is
\* PENDING
NoOrder ==
  [owner |-> ZeroAddress, tokenIn |-> ZeroAddress, tokenOut |-> ZeroAddress, amountIn |-> 0,
   amountOutMin |-> 0, targetPrice |-> 0, status |-> "PENDING"]

NoCall == [fn |-> "none", sender |-> ZeroAddress, args |-> <<>>, reverted |-> FALSE,
           reason |-> "", result |-> <<>>]

\* no contract is deployed while the dashboard code is exercised
NoContracts ==
  /\ orders = EmptyMap
  /\ nextOrderId = 0
  /\ balances = EmptyMap
  /\ priceFeeds = {}
  /\ answers = EmptyMap
  /\ lastOrderIdChecked = 0
  /\ maxOrdersToCheck = 0
  /\ released = EmptyMap
  /\ call = NoCall

(* ------------------------- the chart at rest ---------------------------- *)

chartVars == <<chartData, indicatorParams, activeIndicators>>

\* the chart holds no points while something else is exercised
NoChartData ==
  /\ chartData = NoArray
  /\ indicatorParams = EmptyMap
  /\ activeIndicators = {}


(* ---------------------------- calculateMA ------------------------------ *)

\* the warm-up test written index < period: one index late
MAofCloses_lateWarmup(c, period) ==
  [index \in DOMAIN c |->
     IF index < period THEN Null
     ELSE Div(SumSlice(c, index - period + 1, index + 1), Val(period))]

\* over an array of close values; calculateMA(data, period) of the source is
\* MAofCloses(closes(data), period)
MAofCloses(c, period) ==
  [index \in DOMAIN c |->
     IF index < period - 1 THEN Null
     ELSE Div(SumSlice(c, index - period + 1, index + 1), Val(period))]

calculateMA(data, period) == MAofCloses(closes(data), period)

(* ---------------------------- calculateRSI ----------------------------- *)

changes(data) ==
  [index \in DOMAIN data |->
     IF index = 0 THEN [gain |-> Val(0), loss |-> Val(0)]
     ELSE LET change == data[index].close - data[index - 1].close
          IN [gain |-> IF change > 0 THEN Val(change) ELSE Val(0),
              loss |-> IF change < 0 THEN Val(-change) ELSE Val(0)]]

gains(data) == LET ch == changes(data) IN [i \in DOMAIN data |-> ch[i].gain]

losses(data) == LET ch == changes(data) IN [i \in DOMAIN data |-> ch[i].loss]

\* avgLoss || 1
OrOne(x) == IF Truthy(x) THEN x ELSE Val(1)

\* the chart with indicator settings: rs = avgGain / (avgLoss || 1)
calculateRSI(data, period) ==
  LET g == gains(data)
      l == losses(data)
  IN [index \in DOMAIN data |->
        IF index < period THEN Null
        ELSE LET avgGain == Div(SumSlice(g, index - period + 1, index + 1), Val(period))
                 avgLoss == Div(SumSlice(l, index - period + 1, index + 1), Val(period))
                 rs == Div(avgGain, OrOne(avgLoss))
             IN Sub(Val(100), Div(Val(100), Add(Val(1), rs)))]

\* src/components/AdvancedChart.tsx: rs = gain / loss, no guard
calculateRSI_AdvancedChart(data, period) ==
  LET g == gains(data)
      l == losses(data)
      avgGain == [index \in DOMAIN data |->
                    IF index < period THEN Null
                    ELSE Div(SumSlice(g, index - period + 1, index + 1), Val(period))]
      avgLoss == [index \in DOMAIN data |->
                    IF index < period THEN Null
                    ELSE Div(SumSlice(l, index - period + 1, index + 1), Val(period))]
  IN [index \in DOMAIN data |->
        IF IsNull(avgGain[index]) THEN Null
        ELSE LET rs == Div(avgGain[index], avgLoss[index])
             IN Sub(Val(100), Div(Val(100), Add(Val(1), rs)))]

(* ---------------------------- calculateMACD ---------------------------- *)

MacdMinPeriod == 2

\* null - number coerces null to 0 when the slow average is not tested for null
macdLine_fastOnly(data, fastPeriod, slowPeriod) ==
  LET fastMA == calculateMA(data, fastPeriod)
      slowMA == calculateMA(data, slowPeriod)
  IN [i \in DOMAIN data |->
        IF IsNull(fastMA[i]) THEN Null
        ELSE Sub(fastMA[i], IF IsNull(slowMA[i]) THEN Val(0) ELSE slowMA[i])]

macdLine(data, fastPeriod, slowPeriod) ==
  LET fastMA == calculateMA(data, fastPeriod)
      slowMA == calculateMA(data, slowPeriod)
  IN [i \in DOMAIN data |->
        IF IsNull(fastMA[i]) \/ IsNull(slowMA[i]) THEN Null
        ELSE Sub(fastMA[i], slowMA[i])]

\* close: value ?? 0
zeroFilled(macd) == [i \in DOMAIN macd |-> IF IsNull(macd[i]) THEN Val(0) ELSE macd[i]]

\* a signal line that waits for signalPeriod defined macd values
signalLine_skipAbsent(macd, signalPeriod) ==
  [i \in DOMAIN macd |->
     IF i < signalPeriod - 1 THEN Null
     ELSE IF \E j \in (i - signalPeriod + 1) .. i : IsNull(macd[j]) THEN Null
     ELSE Div(SumSlice(macd, i - signalPeriod + 1, i + 1), Val(signalPeriod))]

signalLine(macd, signalPeriod) == MAofCloses(zeroFilled(macd), signalPeriod)

\* the histogram taken over the zero-filled macd
histogramLine_zeroFilled(macd, signal) ==
  [i \in DOMAIN macd |->
     IF IsNull(signal[i]) THEN Null ELSE Sub(zeroFilled(macd)[i], signal[i])]

histogramLine(macd, signal) ==
  [i \in DOMAIN macd |->
     IF IsNull(macd[i]) \/ IsNull(signal[i]) THEN Null ELSE Sub(macd[i], signal[i])]

calculateMACD(data, fastPeriod, slowPeriod, signalPeriod) ==
  LET macd == macdLine(data, fastPeriod, slowPeriod)
      signal == signalLine(macd, signalPeriod)
  IN [macd |-> macd, signal |-> signal, histogram |-> histogramLine(macd, signal)]

(* ----------------------- calculateBollingerBands ------------------------ *)

\* Math.sqrt is kept exact: a band value is rat + coef * sqrt(rad), the three
\* parts being JS numbers
Surd(rat, coef, rad) == [rat |-> rat, coef |-> coef, rad |-> rad]

\* the element calculateBollingerBands returns where the moving average is null
NullBand == [isNull |-> TRUE, middle |-> Null, upper |-> Surd(Null, Null, Null),
             lower |-> Surd(Null, Null, Null)]

\* slice.reduce((sum, curr) => sum + Math.pow(close - maValue, 2), 0) over
\* data.slice(lo, hi)
RECURSIVE squaredDeviations(_, _, _, _)
squaredDeviations(c, maValue, lo, hi) ==
  IF hi <= lo THEN Val(0)
  ELSE Add(squaredDeviations(c, maValue, lo, hi - 1),
           Mul(Sub(c[hi - 1], maValue), Sub(c[hi - 1], maValue)))

\* the sample variance: the sum divided by period - 1
variance_sample(c, maValue, index, period) ==
  Div(squaredDeviations(c, maValue, index - period + 1, index + 1), Val(period - 1))

variance(c, maValue, index, period) ==
  Div(squaredDeviations(c, maValue, index - period + 1, index + 1), Val(period))

calculateBollingerBands(data, period, stdDev) ==
  LET c == closes(data)
      ma == calculateMA(data, period)
  IN [index \in DOMAIN data |->
        IF IsNull(ma[index]) THEN NullBand
        ELSE LET v == variance(c, ma[index], index, period)
             IN [isNull |-> FALSE,
                 middle |-> ma[index],
                 upper |-> Surd(ma[index], stdDev, v),
                 lower |-> Surd(ma[index], Neg(stdDev), v)]]

(* -------------------------- calculateStochastic ------------------------- *)

\* Math.max(...slice.map(d => d.high)) and Math.min(...slice.map(d => d.low))
\* over data[lo..hi]
RECURSIVE highestHigh(_, _, _)
highestHigh(data, lo, hi) ==
  IF hi = lo THEN data[lo].high
  ELSE LET m == highestHigh(data, lo, hi - 1)
       IN IF data[hi].high > m THEN data[hi].high ELSE m

RECURSIVE lowestLow(_, _, _)
lowestLow(data, lo, hi) ==
  IF hi = lo THEN data[lo].low
  ELSE LET m == lowestLow(data, lo, hi - 1)
       IN IF data[hi].low < m THEN data[hi].low ELSE m

\* the close measured from the highest high instead of the lowest low
stochValues_fromHigh(data, period) ==
  [index \in DOMAIN data |->
     IF index < period - 1 THEN Null
     ELSE LET hh == highestHigh(data, index - period + 1, index)
              ll == lowestLow(data, index - period + 1, index)
          IN Mul(Div(Val(data[index].close - hh), Val(hh - ll)), Val(100))]

\* raw %K; the k field of stochValues
stochValues(data, period) ==
  [index \in DOMAIN data |->
     IF index < period - 1 THEN Null
     ELSE LET hh == highestHigh(data, index - period + 1, index)
              ll == lowestLow(data, index - period + 1, index)
          IN Mul(Div(Val(data[index].close - ll), Val(hh - ll)), Val(100))]

\* slice.filter(v => v !== null) over a[lo..hi]: how many, and their sum
RECURSIVE CountValid(_, _, _)
CountValid(a, lo, hi) ==
  IF hi < lo THEN 0 ELSE CountValid(a, lo, hi - 1) + (IF IsNull(a[hi]) THEN 0 ELSE 1)

RECURSIVE SumValid(_, _, _)
SumValid(a, lo, hi) ==
  IF hi < lo THEN Val(0)
  ELSE IF IsNull(a[hi]) THEN SumValid(a, lo, hi - 1)
  ELSE Add(SumValid(a, lo, hi - 1), a[hi])

\* a smoothing that waits for a window of smoothK defined raw values
smoothedK_fullWindow(stoch, smoothK) ==
  [index \in DOMAIN stoch |->
     IF index < smoothK - 1 THEN Null
     ELSE IF CountValid(stoch, index - smoothK + 1, index) < smoothK THEN Null
     ELSE Div(SumValid(stoch, index - smoothK + 1, index), Val(smoothK))]

smoothedK(stoch, smoothK) ==
  [index \in DOMAIN stoch |->
     IF index < smoothK - 1 THEN Null
     ELSE LET n == CountValid(stoch, index - smoothK + 1, index)
          IN IF n = 0 THEN Null
             ELSE Div(SumValid(stoch, index - smoothK + 1, index), Val(n))]

stochD(sk, smoothD) ==
  [index \in DOMAIN sk |->
     IF index < smoothD - 1 THEN Null
     ELSE LET n == CountValid(sk, index - smoothD + 1, index)
          IN IF n = 0 THEN Null
             ELSE Div(SumValid(sk, index - smoothD + 1, index), Val(n))]

calculateStochastic(data, period, smoothK, smoothD) ==
  LET stoch == stochValues(data, period)
      sk == smoothedK(stoch, smoothK)
  IN [k |-> sk, d |-> stochD(sk, smoothD), raw |-> stoch]

(* ----------------------------- calculateADX ----------------------------- *)

trDm(data) ==
  [index \in DOMAIN data |->
     IF index = 0 THEN [tr |-> 0, plusDM |-> 0, minusDM |-> 0]
     ELSE LET candle == data[index]
              previousCandle == data[index - 1]
              up == candle.high - previousCandle.high
              down == previousCandle.low - candle.low
          IN [tr |-> Max2(candle.high - candle.low,
                          Max2(Abs(candle.high - previousCandle.close),
                               Abs(candle.low - previousCandle.close))),
              plusDM |-> IF up > down THEN Max2(up, 0) ELSE 0,
              minusDM |-> IF down > up THEN Max2(down, 0) ELSE 0]]

\* smoothedTR, smoothedPlusDM and smoothedMinusDM after the callback of
\* indicators has run for index
RECURSIVE smoothed(_, _, _)
smoothed(td, period, index) ==
  LET prev == IF index = 0 THEN [tr |-> Val(0), plusDM |-> Val(0), minusDM |-> Val(0)]
              ELSE smoothed(td, period, index - 1)
      cur == td[index]
  IN IF index < period
       THEN LET acc == [tr |-> Add(prev.tr, Val(cur.tr)),
                        plusDM |-> Add(prev.plusDM, Val(cur.plusDM)),
                        minusDM |-> Add(prev.minusDM, Val(cur.minusDM))]
            IN IF index = period - 1
                 THEN [tr |-> Div(acc.tr, Val(period)),
                       plusDM |-> Div(acc.plusDM, Val(period)),
                       minusDM |-> Div(acc.minusDM, Val(period))]
                 ELSE acc
       ELSE [tr |-> Div(Add(Mul(prev.tr, Val(period - 1)), Val(cur.tr)), Val(period)),
             plusDM |-> Div(Add(Mul(prev.plusDM, Val(period - 1)), Val(cur.plusDM)), Val(period)),
             minusDM |-> Div(Add(Mul(prev.minusDM, Val(period - 1)), Val(cur.minusDM)), Val(period))]

\* dx is undefined (here Null) on the entries of the first period indices
indicators(data, period) ==
  LET td == trDm(data)
  IN [index \in DOMAIN data |->
        IF index < period THEN [plusDI |-> Null, minusDI |-> Null, dx |-> Null]
        ELSE LET sm == smoothed(td, period, index)
                 plusDI == Mul(Div(sm.plusDM, sm.tr), Val(100))
                 minusDI == Mul(Div(sm.minusDM, sm.tr), Val(100))
             IN [plusDI |-> plusDI, minusDI |-> minusDI,
                 dx |-> Mul(Div(AbsV(Sub(plusDI, minusDI)), Add(plusDI, minusDI)), Val(100))]]

dxOf(ind) == [i \in DOMAIN ind |-> ind[i].dx]

\* The callback that builds adxValues reads adxValues[index - 1] while the
\* const it initializes is still unset: the first index past 2*period-1 with
\* a truthy dx raises (a ReferenceError, or a TypeError where const is
\* compiled to var) and calculateADX returns nothing.
adxThrows(ind, period) ==
  \E index \in DOMAIN ind : index > period * 2 - 1 /\ Truthy(ind[index].dx)

adxValues(ind, period) ==
  LET seed == Div(SumSlice(dxOf(ind), period, period * 2), Val(period))
  IN [index \in DOMAIN ind |->
        IF index < period * 2 - 1 \/ ~Truthy(ind[index].dx) THEN Null ELSE seed]

calculateADX(data, period) ==
  LET ind == indicators(data, period)
  IN IF adxThrows(ind, period)
       THEN [threw |-> TRUE, adx |-> NoArray, plusDI |-> NoArray, minusDI |-> NoArray]
       ELSE [threw |-> FALSE,
             adx |-> adxValues(ind, period),
             plusDI |-> [i \in DOMAIN ind |-> ind[i].plusDI],
             minusDI |-> [i \in DOMAIN ind |-> ind[i].minusDI]]

(* ------------------------------ state ---------------------------------- *)

\* series is the bar series handed to a calculator (open, volume and
\* timestamp are read by no calculator and are left out of a bar); out is
\* what the one calculator call made on it returned.

Bar(l, c, h) == [low |-> l, close |-> c, high |-> h]

NoOut == [kind |-> "none", variant |-> "none", params |-> <<>>, threw |-> FALSE,
          r1 |-> NoArray, r2 |-> NoArray, r3 |-> NoArray]

Result(kind, variant, args, r1, r2, r3) ==
  [kind |-> kind, variant |-> variant, params |-> args, threw |-> FALSE,
   r1 |-> r1, r2 |-> r2, r3 |-> r3]

\* series whose only varying field is close (open = high = low = close)
CloseSeries ==
  UNION {[0 .. (n - 1) -> {Bar(c, c, c) : c \in 1 .. MaxClose}] : n \in 1 .. MaxLen}

\* closes 1, 2, 3, 4, 5
ExampleSeries == [i \in 0 .. 4 |-> Bar(i + 1, i + 1, i + 1)]

\* closes 1, 2, ..., 20
RisingSeries == [i \in 0 .. 19 |-> Bar(i + 1, i + 1, i + 1)]

InitMA ==
  /\ series \in CloseSeries \cup {ExampleSeries, RisingSeries}
  /\ out = NoOut
  /\ NoDialog
  /\ NoContracts
  /\ NoChartData

ComputeMA ==
  /\ out = NoOut
  /\ \E period \in 1 .. (Length(series) + 1) :
    /\ out' = Result("MA", "settings", <<period>>, calculateMA(series, period),
                     NoArray, NoArray)
    /\ UNCHANGED <<series, dialogVars, chainVars, chartVars>>

ComputeRSI ==
  /\ out = NoOut
  /\ \E period \in 2 .. Length(series) :
    /\ out' = Result("RSI", "settings", <<period>>, calculateRSI(series, period),
                     NoArray, NoArray)
    /\ UNCHANGED <<series, dialogVars, chainVars, chartVars>>

ComputeRSI_AdvancedChart ==
  /\ out = NoOut
  /\ \E period \in 2 .. Length(series) :
    /\ out' = Result("RSI", "plain", <<period>>, calculateRSI_AdvancedChart(series, period),
                     NoArray, NoArray)
    /\ UNCHANGED <<series, dialogVars, chainVars, chartVars>>

ComputeMACD ==
  /\ out = NoOut
  /\ \E fastPeriod \in MacdMinPeriod .. MaxMacdPeriod,
     slowPeriod \in MacdMinPeriod .. MaxMacdPeriod,
     signalPeriod \in MacdMinPeriod .. MaxMacdPeriod :
    \E r \in {calculateMACD(series, fastPeriod, slowPeriod, signalPeriod)} :
       /\ out' = Result("MACD", "settings", <<fastPeriod, slowPeriod, signalPeriod>>,
                        r.macd, r.signal, r.histogram)
       /\ UNCHANGED <<series, dialogVars, chainVars, chartVars>>

NextMA == ComputeMA \/ ComputeRSI \/ ComputeRSI_AdvancedChart \/ ComputeMACD

SpecMA == InitMA /\ [][NextMA]_vars

(* ------------------------- high/low/close series ------------------------ *)

\* bars with low <= close <= high, as the data sources of the chart build them
Bars(maxPrice) ==
  {Bar(l, c, h) : <<l, c, h>> \in
     {t \in (1 .. maxPrice) \X (1 .. maxPrice) \X (1 .. maxPrice) : t[1] <= t[2] /\ t[2] <= t[3]}}

StochMinPeriod == 1

InitStoch ==
  /\ series \in UNION {[0 .. (n - 1) -> Bars(MaxPrice)] : n \in 1 .. MaxBars}
  /\ out = NoOut
  /\ NoDialog
  /\ NoContracts
  /\ NoChartData

ComputeStochastic ==
  /\ out = NoOut
  /\ \E period \in StochMinPeriod .. MaxStochPeriod,
     smoothK \in StochMinPeriod .. MaxSmooth,
     smoothD \in StochMinPeriod .. MaxSmooth :
    \E r \in {calculateStochastic(series, period, smoothK, smoothD)} :
       /\ out' = Result("Stochastic", "settings", <<period, smoothK, smoothD>>, r.k, r.d, r.raw)
       /\ UNCHANGED <<series, dialogVars, chainVars, chartVars>>

NextStoch == ComputeStochastic

SpecStoch == InitStoch /\ [][NextStoch]_vars

AdxMinPeriod == 2

InitADX ==
  /\ series \in UNION {[0 .. (n - 1) -> Bars(MaxAdxPrice)] : n \in 1 .. MaxAdxBars}
  /\ out = NoOut
  /\ NoDialog
  /\ NoContracts
  /\ NoChartData

ComputeADX ==
  /\ out = NoOut
  /\ \E period \in AdxMinPeriod .. MaxAdxPeriod :
    \E r \in {calculateADX(series, period)} :
       /\ out' = [Result("ADX", "settings", <<period>>, r.adx, r.plusDI, r.minusDI)
                    EXCEPT !.threw = r.threw]
       /\ UNCHANGED <<series, dialogVars, chainVars, chartVars>>

NextADX == ComputeADX

SpecADX == InitADX /\ [][NextADX]_vars

(* --------------------------- Bollinger series --------------------------- *)

BollingerMinPeriod == 5

\* the smallest, the default and the largest multiplier the settings accept
BollingerStdDevs == {Num(1, 10), Val(2), Val(5)}

InitBB ==
  /\ series \in UNION {[0 .. (n - 1) -> {Bar(c, c, c) : c \in 1 .. MaxBBClose}] :
                         n \in 1 .. MaxBBLen}
  /\ out = NoOut
  /\ NoDialog
  /\ NoContracts
  /\ NoChartData

ComputeBollinger ==
  /\ out = NoOut
  /\ \E period \in BollingerMinPeriod .. MaxBBPeriod, stdDev \in BollingerStdDevs :
    /\ out' = Result("Bollinger", "settings", <<period, stdDev>>,
                     calculateBollingerBands(series, period, stdDev), NoArray, NoArray)
    /\ UNCHANGED <<series, dialogVars, chainVars, chartVars>>

NextBB == ComputeBollinger

SpecBB == InitBB /\ [][NextBB]_vars

(* ------------------------ strings and parsing -------------------------- *)

\* a string is a sequence of one-character strings

Digits == {"0", "1", "2", "3", "4", "5", "6", "7", "8", "9"}

DigitValue(ch) ==
  CASE ch = "0" -> 0 [] ch = "1" -> 1 [] ch = "2" -> 2 [] ch = "3" -> 3 [] ch = "4" -> 4
    [] ch = "5" -> 5 [] ch = "6" -> 6 [] ch = "7" -> 7 [] ch = "8" -> 8 [] ch = "9" -> 9

RECURSIVE Pow10(_)
Pow10(n) == IF n = 0 THEN 1 ELSE 10 * Pow10(n - 1)

\* String.prototype.trim on strings whose only white space is the blank
RECURSIVE trim(_)
trim(str) ==
  IF str = <<>> THEN str
  ELSE IF Head(str) = " " THEN trim(Tail(str))
  ELSE IF str[Len(str)] = " " THEN trim(SubSeq(str, 1, Len(str) - 1))
  ELSE str

\* String.prototype.split(sep) for a one-character separator
RECURSIVE split(_, _)
split(str, sep) ==
  IF \E i \in 1 .. Len(str) : str[i] = sep
  THEN LET i == CHOOSE j \in 1 .. Len(str) :
                  str[j] = sep /\ \A h \in 1 .. (j - 1) : str[h] # sep
       IN <<SubSeq(str, 1, i - 1)>> \o split(SubSeq(str, i + 1, Len(str)), sep)
  ELSE <<str>>

\* the longest prefix of str made of decimal digits
RECURSIVE digitPrefix(_)
digitPrefix(str) ==
  IF str # <<>> /\ Head(str) \in Digits THEN <<Head(str)>> \o digitPrefix(Tail(str)) ELSE <<>>

\* the number a string of decimal digits denotes
RECURSIVE digitsValue(_)
digitsValue(ds) ==
  IF ds = <<>> THEN 0 ELSE 10 * digitsValue(SubSeq(ds, 1, Len(ds) - 1)) + DigitValue(ds[Len(ds)])

\* leading white space skipped, then the sign: [sign, rest]
signAndRest(str) ==
  LET t == trim(str)
  IN IF t # <<>> /\ Head(t) = "-" THEN [sign |-> -1, rest |-> Tail(t)]
     ELSE IF t # <<>> /\ Head(t) = "+" THEN [sign |-> 1, rest |-> Tail(t)]
     ELSE [sign |-> 1, rest |-> t]

\* parseInt(str) in radix 10: NaN when no digit follows the optional sign
parseInt(str) ==
  LET sr == signAndRest(str)
      ds == digitPrefix(sr.rest)
  IN IF ds = <<>> THEN NaN ELSE Val(sr.sign * digitsValue(ds))

\* parseFloat(str) for decimal literals without exponent: digits, then
\* optionally a point and more digits; NaN when there is no digit at all
parseFloat(str) ==
  LET sr == signAndRest(str)
      whole == digitPrefix(sr.rest)
      after == SubSeq(sr.rest, Len(whole) + 1, Len(sr.rest))
      frac == IF after # <<>> /\ Head(after) = "." THEN digitPrefix(Tail(after)) ELSE <<>>
  IN IF whole = <<>> /\ frac = <<>> THEN NaN
     ELSE Num(sr.sign * (digitsValue(whole) * Pow10(Len(frac)) + digitsValue(frac)),
              Pow10(Len(frac)))

(* ------------------------- validation rules ----------------------------- *)

Indicators == {"MA", "RSI", "Bollinger Bands", "MACD", "Stochastic", "ADX"}

Rule(min, max) == [min |-> min, max |-> max]

validationRules ==
  [indicator \in Indicators |->
     CASE indicator = "MA" -> [param \in {"periods"} |-> Rule(Val(1), Val(500))]
       [] indicator = "RSI" -> [param \in {"period"} |-> Rule(Val(2), Val(100))]
       [] indicator = "Bollinger Bands" ->
            [param \in {"period", "stdDev"} |->
               IF param = "period" THEN Rule(Val(5), Val(100)) ELSE Rule(Num(1, 10), Val(5))]
       [] indicator = "MACD" ->
            [param \in {"fastPeriod", "slowPeriod", "signalPeriod"} |-> Rule(Val(2), Val(100))]
       [] indicator = "Stochastic" ->
            [param \in {"period", "smoothK", "smoothD"} |->
               IF param = "period" THEN Rule(Val(1), Val(100)) ELSE Rule(Val(1), Val(10))]
       [] indicator = "ADX" -> [param \in {"period"} |-> Rule(Val(2), Val(100))]]

ParamNames ==
  {"periods", "period", "stdDev", "fastPeriod", "slowPeriod", "signalPeriod", "smoothK",
   "smoothD"}

\* the fields the dialog renders an input for: <<indicator, param>>
Fields == {f \in Indicators \X ParamNames : f[2] \in DOMAIN validationRules[f[1]]}

\* the parameter objects of defaultParams, by indicator
defaultParams ==
  [indicator \in Indicators |->
     CASE indicator = "MA" -> [periods |-> <<Val(20), Val(50), Val(200)>>]
       [] indicator = "RSI" -> [period |-> Val(14)]
       [] indicator = "Bollinger Bands" -> [period |-> Val(20), stdDev |-> Val(2)]
       [] indicator = "MACD" ->
            [fastPeriod |-> Val(12), slowPeriod |-> Val(26), signalPeriod |-> Val(9)]
       [] indicator = "Stochastic" -> [period |-> Val(14), smoothK |-> Val(3), smoothD |-> Val(3)]
       [] indicator = "ADX" -> [period |-> Val(14)]]

\* `Value must be between ${rules.min} and ${rules.max}`
ValueMessage(rules) == <<"Value must be between ", rules.min, " and ", rules.max>>

\* `Periods must be between ${rules.min} and ${rules.max}`
PeriodsMessage(rules) == <<"Periods must be between ", rules.min, " and ", rules.max>>

(* ------------------------- objects and presets -------------------------- *)

\* The parameter object of one indicator ({ period: 14 }, { periods: [..] })
\* is a JavaScript object that several holders may reference at once.  heap
\* maps the identity of each such object to its fields; a parameter bundle
\* (localParams, the params prop, the indicator keys of a preset) maps
\* indicator names to identities.  An identity is <<origin, k, j, indicator>>.

\* the bundle { ...a, ...b }
Spread(a, b) == [i \in DOMAIN a \cup DOMAIN b |-> IF i \in DOMAIN b THEN b[i] ELSE a[i]]

\* the values a bundle holds at the moment it is read
Deref(h, bundle) == [i \in DOMAIN bundle |-> h[bundle[i]]]

Preset(name, description, isCustom, bundle) ==
  [name |-> name, description |-> description, isCustom |-> isCustom, params |-> bundle]

\* the indicator objects the built-in presets are written with
defaultPresetValues ==
  <<[name |-> "Trend Following",
     description |-> "Moving averages and ADX for trend identification",
     values |-> [i \in {"MA", "ADX"} |-> defaultParams[i]]],
    [name |-> "Momentum Trading",
     description |-> "RSI and MACD for momentum analysis",
     values |-> [i \in {"RSI", "MACD"} |-> defaultParams[i]]],
    [name |-> "Volatility Trading",
     description |-> "Bollinger Bands and Stochastic for volatility analysis",
     values |-> [i \in {"Bollinger Bands", "Stochastic"} |-> defaultParams[i]]]>>

\* defaultPresets: isCustom is not set on a built-in preset (FALSE stands for
\* the missing field)
defaultPresets ==
  [n \in 1 .. 3 |->
     Preset(defaultPresetValues[n].name, defaultPresetValues[n].description, FALSE,
            [i \in DOMAIN defaultPresetValues[n].values |-> Ref("defaultPresets", 0, n, i)])]

BuiltInNames == {defaultPresets[n].name : n \in 1 .. 3}

\* presets.filter(p => p.isCustom)
RECURSIVE customOf(_)
customOf(list) ==
  IF list = <<>> THEN <<>>
  ELSE IF Head(list).isCustom THEN <<Head(list)>> \o customOf(Tail(list))
  ELSE customOf(Tail(list))

\* presets.filter(p => p.isCustom && p.name !== name)
RECURSIVE customExcept(_, _)
customExcept(list, name) ==
  IF list = <<>> THEN <<>>
  ELSE IF Head(list).isCustom /\ Head(list).name # name
       THEN <<Head(list)>> \o customExcept(Tail(list), name)
  ELSE customExcept(Tail(list), name)

\* JSON.stringify of an array of presets: the text holds values, no identities
stringify(h, list) ==
  [n \in 1 .. Len(list) |->
     [name |-> list[n].name, description |-> list[n].description,
      isCustom |-> list[n].isCustom, values |-> Deref(h, list[n].params)]]

\* JSON.parse of such a text: every object of the result is a new one; origin
\* and k tell the parse apart from every other
parsedPresets(json, origin, k) ==
  [n \in 1 .. Len(json) |->
     Preset(json[n].name, json[n].description, json[n].isCustom,
            [i \in DOMAIN json[n].values |-> Ref(origin, k, n, i)])]

parsedObjects(json, origin, k) ==
  [r \in {Ref(origin, k, n, i) : <<n, i>> \in
            {ni \in (1 .. Len(json)) \X Indicators : ni[2] \in DOMAIN json[ni[1]].values}} |->
     json[r[3]].values[r[4]]]

\* customPresets.findIndex(p => p.name === name), 0 standing for -1
findIndex(list, name) ==
  IF \E n \in 1 .. Len(list) : list[n].name = name
  THEN CHOOSE n \in 1 .. Len(list) :
         list[n].name = name /\ \A m \in 1 .. (n - 1) : list[m].name # name
  ELSE 0

\* saveCustomPreset as called from a render in which the hook's state is
\* list: what it writes to localStorage and hands to setPresets
saveCustomPreset(h, list, name, bundle, description) ==
  LET customPresets == customOf(list)
      newPreset == Preset(name, description, TRUE, bundle)
      existingIndex == findIndex(customPresets, name)
      saved == IF existingIndex >= 1
               THEN [customPresets EXCEPT ![existingIndex] = newPreset]
               ELSE Append(customPresets, newPreset)
  IN [ok |-> TRUE, storage |-> Item(stringify(h, saved)), presets |-> defaultPresets \o saved]

\* every custom preset of another name dropped as well when name is built in
deleteCustomPreset_byKind(h, list, name) ==
  LET customPresets == IF name \in BuiltInNames THEN <<>> ELSE customExcept(list, name)
  IN [ok |-> TRUE, storage |-> Item(stringify(h, customPresets)),
      presets |-> defaultPresets \o customPresets]

deleteCustomPreset(h, list, name) ==
  LET customPresets == customExcept(list, name)
  IN [ok |-> TRUE, storage |-> Item(stringify(h, customPresets)),
      presets |-> defaultPresets \o customPresets]

\* getPresetParams: the indicator keys of the first preset of that name;
\* found is FALSE for the null result
getPresetParams(list, name) ==
  LET n == findIndex(list, name)
  IN IF n = 0 THEN [found |-> FALSE, params |-> NoBundle]
     ELSE [found |-> TRUE, params |-> list[n].params]

(* --------------------------- validateAndUpdate -------------------------- *)

\* keys of m other than k
Without(m, k) == [i \in DOMAIN m \ {k} |-> m[i]]

\* newErrors[indicator] = { ...newErrors[indicator], [param]: message }
withError(errs, indicator, param, message) ==
  LET old == IF indicator \in DOMAIN errs THEN errs[indicator] ELSE EmptyMap
  IN Spread(errs, [i \in {indicator} |-> Spread(old, [q \in {param} |-> message])])

\* delete newErrors[indicator]?.[param], then the indicator's entry dropped
\* when it has no key left
withoutError(errs, indicator, param) ==
  IF indicator \notin DOMAIN errs THEN errs
  ELSE LET rest == Without(errs[indicator], param)
       IN IF DOMAIN rest = {} THEN Without(errs, indicator)
          ELSE Spread(errs, [i \in {indicator} |-> rest])

\* String(value).split(',').map(p => parseInt(p.trim())).filter(p => !isNaN(p))
parsePeriods(value) ==
  LET parts == split(value, ",")
      parsed == [n \in 1 .. Len(parts) |-> parseInt(trim(parts[n]))]
  IN SelectSeq(parsed, LAMBDA x : ~IsNaN(x))

\* only the first period tested against the rule
invalidPeriods_firstOnly(periods, rules) ==
  SelectSeq(SubSeq(periods, 1, 1), LAMBDA x : Lt(x, rules.min) \/ Lt(rules.max, x))

\* periods.filter(p => p < rules.min || p > rules.max)
invalidPeriods(periods, rules) ==
  SelectSeq(periods, LAMBDA x : Lt(x, rules.min) \/ Lt(rules.max, x))

\* the upper bound itself refused
outOfRange_maxExcluded(numValue, rules) ==
  IsNaN(numValue) \/ Lt(numValue, rules.min) \/ ~Lt(numValue, rules.max)

\* isNaN(numValue) || numValue < rules.min || numValue > rules.max
outOfRange(numValue, rules) ==
  IsNaN(numValue) \/ Lt(numValue, rules.min) \/ Lt(rules.max, numValue)

\* validateAndUpdate(indicator, param, value) in a render whose state is
\* localParams = lp and errors = errs: the objects after its assignments, the
\* error map handed to setErrors, and whether debouncedPreview is called.
\* newParams is a shallow copy, so it references the objects lp references
\* and the assignment is made to the object lp[indicator] itself.
validateAndUpdate(h, lp, errs, indicator, param, value) ==
  LET rules == validationRules[indicator][param]
  IN IF indicator = "MA" /\ param = "periods"
     THEN LET periods == parsePeriods(value)
          IN IF Len(invalidPeriods(periods, rules)) > 0
             THEN [heap |-> h, errors |-> withError(errs, indicator, param, PeriodsMessage(rules)),
                   preview |-> FALSE]
             ELSE LET newErrors == withoutError(errs, indicator, param)
                  IN [heap |-> [h EXCEPT ![lp[indicator]] = [@ EXCEPT !.periods = periods]],
                      errors |-> newErrors, preview |-> DOMAIN newErrors = {}]
     ELSE LET numValue == parseFloat(value)
          IN IF outOfRange(numValue, rules)
             THEN [heap |-> h, errors |-> withError(errs, indicator, param, ValueMessage(rules)),
                   preview |-> FALSE]
             ELSE LET newErrors == withoutError(errs, indicator, param)
                  IN [heap |-> [h EXCEPT ![lp[indicator]] = [@ EXCEPT ![param] = numValue]],
                      errors |-> newErrors, preview |-> DOMAIN newErrors = {}]

(* ----------------------------- the dialog ------------------------------- *)

\* State of one mounted IndicatorSettings with its usePresets hook and of
\* what surrounds it: heap (the parameter objects), localParams, errors,
\* presets and selectedPreset (hook state), storage (the localStorage item),
\* pending (the debounced preview call not yet made), isPreviewEnabled,
\* onPreview (whether the prop is given), params (the prop, the chart's
\* indicatorParams), isOpen, download (the last exported file), delivered
\* (what the last step handed to onPreview or onChange), event (the handler
\* the last step ran) and steps (the number of handlers run).

\* the calculators are not called while the dialog is exercised
NoChart == series = NoArray /\ out = NoOut

defaultBundle == [i \in Indicators |-> Ref("defaultParams", 0, 0, i)]

\* the chart's indicatorParams, written with the values of defaultParams
chartBundle == [i \in Indicators |-> Ref("params", 0, 0, i)]

\* the objects that exist before anything is parsed
seedObjects(props) ==
  [r \in {defaultBundle[i] : i \in Indicators} \cup {props[i] : i \in DOMAIN props} \cup
         UNION {{defaultPresets[n].params[i] : i \in DOMAIN defaultPresets[n].params} :
                  n \in 1 .. 3} |->
     defaultParams[r[4]]]

\* custom presets as the hook's tests write them
CustomStrategy ==
  [name |-> "Custom Strategy", description |-> "My custom trading strategy", isCustom |-> TRUE,
   values |-> [i \in {"MA", "RSI"} |->
                 IF i = "MA" THEN [periods |-> <<Val(10), Val(30)>>] ELSE [period |-> Val(10)]]]

NewStrategy ==
  [name |-> "New Strategy", description |-> "Test description", isCustom |-> TRUE,
   values |-> [i \in {"MA", "RSI"} |->
                 IF i = "MA" THEN [periods |-> <<Val(15), Val(45)>>] ELSE [period |-> Val(12)]]]

\* a preset of a file written by hand: RSI period above the rule's maximum
WidePreset ==
  [name |-> "Wide", description |-> "", isCustom |-> TRUE,
   values |-> [i \in {"RSI"} |-> [period |-> Val(500)]]]

\* the JSON arrays saveCustomPreset leaves in localStorage for these presets
StoredCustoms == {<<CustomStrategy>>, <<CustomStrategy, NewStrategy>>}

\* the files offered to the import input: exports of such stores and the
\* hand-written file
ImportFiles == StoredCustoms \cup {<<WidePreset>>}

\* mount: the first render and the effect that loads the custom presets
Mounted(item, props, previewGiven) ==
  /\ NoChart
  /\ NoContracts
  /\ NoChartData
  /\ storage = item
  /\ params = props
  /\ onPreview = previewGiven
  /\ heap = Spread(seedObjects(props), parsedObjects(item.json, "loaded", 0))
  /\ localParams = Spread(defaultBundle, props)
  /\ errors = EmptyMap
  /\ presets = IF item.present THEN defaultPresets \o parsedPresets(item.json, "loaded", 0)
               ELSE defaultPresets
  /\ selectedPreset = NoSelection
  /\ pending = NoPending
  /\ isPreviewEnabled = TRUE
  /\ isOpen = TRUE
  /\ download = NoItem
  /\ delivered = NoDelivery
  /\ event = Event("mount", <<>>)
  /\ steps = 0

\* one call of validateAndUpdate from an input's onChange
Edit(inputs, bound) ==
  /\ isOpen /\ steps < bound
  /\ \E f \in inputs :
       \E r \in {validateAndUpdate(heap, localParams, errors, f[1], f[2], f[3])} :
          /\ heap' = r.heap
          /\ errors' = r.errors
          /\ pending' = IF r.preview THEN Armed(localParams) ELSE pending
          /\ event' = Event("validateAndUpdate", f)
  /\ delivered' = NoDelivery
  /\ steps' = steps + 1
  /\ UNCHANGED <<chainVars, chartVars,
                 series, out, localParams, presets, selectedPreset, storage, isPreviewEnabled,
                 onPreview, params, isOpen, download>>

\* the debounce timer expires: the function given to debounce runs with the
\* arguments of the last call
FirePreview ==
  /\ pending.armed
  /\ pending' = NoPending
  /\ delivered' = IF onPreview /\ isPreviewEnabled
                  THEN Delivery("onPreview", Deref(heap, pending.args))
                  ELSE NoDelivery
  /\ event' = Event("debounce", <<>>)
  /\ UNCHANGED <<chainVars, chartVars,
                 series, out, heap, localParams, errors, presets, selectedPreset, storage,
                 isPreviewEnabled, onPreview, params, isOpen, download, steps>>

\* the live-preview checkbox; the effect's cleanup cancels the debounced
\* function the change replaces
TogglePreview(bound) ==
  /\ isOpen /\ steps < bound
  /\ isPreviewEnabled' = ~isPreviewEnabled
  /\ pending' = NoPending
  /\ delivered' = NoDelivery
  /\ event' = Event("setIsPreviewEnabled", <<>>)
  /\ steps' = steps + 1
  /\ UNCHANGED <<chainVars, chartVars,
                 series, out, heap, localParams, errors, presets, selectedPreset, storage,
                 onPreview, params, isOpen, download>>

\* a click on a preset of the list
handlePresetSelect(bound) ==
  /\ isOpen /\ steps < bound
  /\ \E n \in 1 .. Len(presets) :
       \E r \in {getPresetParams(presets, presets[n].name)} :
          /\ r.found
          /\ selectedPreset' = Selected(presets[n].name)
          /\ localParams' = Spread(localParams, r.params)
          /\ pending' = IF isPreviewEnabled THEN Armed(r.params) ELSE pending
          /\ event' = Event("handlePresetSelect", <<presets[n].name>>)
  /\ delivered' = NoDelivery
  /\ steps' = steps + 1
  /\ UNCHANGED <<chainVars, chartVars,
                 series, out, heap, errors, presets, storage, isPreviewEnabled, onPreview,
                 params, isOpen, download>>

\* the names typed into the save form (trimmed, not empty)
SaveNames == {"Custom Strategy", "Trend Following"}

handleSavePreset(bound) ==
  /\ isOpen /\ steps < bound
  /\ \E name \in SaveNames :
       \E r \in {saveCustomPreset(heap, presets, name, localParams, "")} :
          /\ storage' = r.storage
          /\ presets' = r.presets
          /\ selectedPreset' = Selected(name)
          /\ event' = Event("handleSavePreset", <<name>>)
  /\ delivered' = NoDelivery
  /\ steps' = steps + 1
  /\ UNCHANGED <<chainVars, chartVars,
                 series, out, heap, localParams, errors, pending, isPreviewEnabled, onPreview,
                 params, isOpen, download>>

\* deleteCustomPreset(name) for the name of a listed preset
handleDeletePreset(bound) ==
  /\ isOpen /\ steps < bound
  /\ \E n \in 1 .. Len(presets) :
       \E r \in {deleteCustomPreset(heap, presets, presets[n].name)} :
          /\ storage' = r.storage
          /\ presets' = r.presets
          /\ selectedPreset' = IF selectedPreset = Selected(presets[n].name) THEN NoSelection
                               ELSE selectedPreset
          /\ event' = Event("handleDeletePreset", <<presets[n].name>>)
  /\ delivered' = NoDelivery
  /\ steps' = steps + 1
  /\ UNCHANGED <<chainVars, chartVars,
                 series, out, heap, localParams, errors, pending, isPreviewEnabled, onPreview,
                 params, isOpen, download>>

handleExportPresets(bound) ==
  /\ isOpen /\ steps < bound
  /\ download' = Item(stringify(heap, customOf(presets)))
  /\ delivered' = NoDelivery
  /\ event' = Event("handleExportPresets", <<>>)
  /\ steps' = steps + 1
  /\ UNCHANGED <<chainVars, chartVars,
                 series, out, heap, localParams, errors, presets, selectedPreset, storage,
                 pending, isPreviewEnabled, onPreview, params, isOpen>>

\* importedPresets.forEach(preset => saveCustomPreset(preset.name, preset,
\* preset.description)): every call is made on the saveCustomPreset of the
\* render the handler belongs to, whose presets is list; what the last call
\* wrote and set is what remains
RECURSIVE saveEach(_, _, _, _)
saveEach(h, list, imported, written) ==
  IF imported = <<>> THEN written
  ELSE saveEach(h, list, Tail(imported),
                saveCustomPreset(h, list, Head(imported).name, Head(imported).params,
                                 Head(imported).description))

\* a file chosen in the import input, read and parsed
handleImportPresets(bound) ==
  /\ isOpen /\ steps < bound
  /\ \E json \in ImportFiles \cup (IF download.present THEN {download.json} ELSE {}) :
       \E h \in {Spread(heap, parsedObjects(json, "imported", steps + 1))} :
          \E r \in {saveEach(h, presets, parsedPresets(json, "imported", steps + 1),
                             [ok |-> FALSE, storage |-> storage, presets |-> presets])} :
             /\ heap' = h
             /\ storage' = r.storage
             /\ presets' = r.presets
             /\ event' = Event("handleImportPresets", json)
  /\ delivered' = NoDelivery
  /\ steps' = steps + 1
  /\ UNCHANGED <<chainVars, chartVars,
                 series, out, localParams, errors, selectedPreset, pending, isPreviewEnabled,
                 onPreview, params, isOpen, download>>

\* files the import input can be given that are not an array of presets:
\* text that is no JSON, JSON that is no array, and an array in which a null
\* follows the presets of entries
BrokenFile(content, parses, isArray, entries) ==
  [content |-> content, parses |-> parses, isArray |-> isArray, entries |-> entries]

MalformedFiles ==
  {BrokenFile("invalid json", FALSE, FALSE, <<>>),
   BrokenFile("{}", TRUE, FALSE, <<>>),
   BrokenFile("[null]", TRUE, TRUE, <<>>),
   BrokenFile("[<Custom Strategy>, null]", TRUE, TRUE, <<CustomStrategy>>),
   BrokenFile("[<Custom Strategy>, <New Strategy>, null]", TRUE, TRUE,
              <<CustomStrategy, NewStrategy>>)}

\* the entries forEach hands to saveCustomPreset before the handler's try
\* block is left: JSON.parse throws on text that is no JSON, forEach is no
\* function of what is no array, and preset.name throws on null
visitedBeforeThrow(file) ==
  IF file.parses /\ file.isArray THEN file.entries ELSE <<>>

\* the same handler on such a file: the catch logs the error and returns
handleImportMalformed(bound) ==
  /\ isOpen /\ steps < bound
  /\ \E file \in MalformedFiles :
       \E json \in {visitedBeforeThrow(file)} :
          \E h \in {Spread(heap, parsedObjects(json, "imported", steps + 1))} :
             \E r \in {saveEach(h, presets, parsedPresets(json, "imported", steps + 1),
                                [ok |-> FALSE, storage |-> storage, presets |-> presets])} :
                /\ heap' = h
                /\ storage' = r.storage
                /\ presets' = r.presets
                /\ event' = Event("handleImportPresets throws", json)
  /\ delivered' = NoDelivery
  /\ steps' = steps + 1
  /\ UNCHANGED <<chainVars, chartVars,
                 series, out, localParams, errors, selectedPreset, pending, isPreviewEnabled,
                 onPreview, params, isOpen, download>>

\* the Apply button: onChange(localParams) and onClose() when there is no
\* error; the chart keeps the bundle as its indicatorParams and closes
Apply(bound) ==
  /\ isOpen /\ steps < bound
  /\ IF DOMAIN errors = {}
     THEN /\ delivered' = Delivery("onChange", Deref(heap, localParams))
          /\ params' = localParams
          /\ isOpen' = FALSE
     ELSE /\ delivered' = NoDelivery
          /\ UNCHANGED <<params, isOpen>>
  /\ event' = Event("Apply", <<>>)
  /\ steps' = steps + 1
  /\ UNCHANGED <<chainVars, chartVars,
                 series, out, heap, localParams, errors, presets, selectedPreset, storage,
                 pending, isPreviewEnabled, onPreview, download>>

\* the Cancel button
Cancel(bound) ==
  /\ isOpen /\ steps < bound
  /\ localParams' = Spread(defaultBundle, params)
  /\ errors' = EmptyMap
  /\ selectedPreset' = NoSelection
  /\ isOpen' = FALSE
  /\ delivered' = NoDelivery
  /\ event' = Event("Cancel", <<>>)
  /\ steps' = steps + 1
  /\ UNCHANGED <<chainVars, chartVars,
                 series, out, heap, presets, storage, pending, isPreviewEnabled, onPreview,
                 params, download>>

\* the chart's settings button
Reopen(bound) ==
  /\ ~isOpen /\ steps < bound
  /\ isOpen' = TRUE
  /\ delivered' = NoDelivery
  /\ event' = Event("open", <<>>)
  /\ steps' = steps + 1
  /\ UNCHANGED <<chainVars, chartVars,
                 series, out, heap, localParams, errors, presets, selectedPreset, storage,
                 pending, isPreviewEnabled, onPreview, params, download>>

(* ------------------------- field validation ----------------------------- *)

\* "150", "101", "5", "0.1", "abc"
SingleRaws ==
  {<<"1", "5", "0">>, <<"1", "0", "1">>, <<"5">>, <<"0", ".", "1">>, <<"a", "b", "c">>}

\* "20, 50", "600", "501", "20, 600", "10,a,30"
PeriodsRaws ==
  {<<"2", "0", ",", " ", "5", "0">>, <<"6", "0", "0">>, <<"5", "0", "1">>,
   <<"2", "0", ",", " ", "6", "0", "0">>, <<"1", "0", ",", "a", ",", "3", "0">>}

FieldInputs ==
  {<<f[1], f[2], raw>> : <<f, raw>> \in
     {fr \in Fields \X (SingleRaws \cup PeriodsRaws) :
        fr[2] \in (IF fr[1] = <<"MA", "periods">> THEN PeriodsRaws ELSE SingleRaws)}}

InitSettings ==
  \E previewGiven \in BOOLEAN : Mounted(NoItem, chartBundle, previewGiven)

EditField == Edit(FieldInputs, MaxEdits)

NextSettings == EditField \/ FirePreview

SpecSettings == InitSettings /\ [][NextSettings]_vars

(* ------------------------- the preset store ----------------------------- *)

\* the dialog's preset controls, as the chart mounts it (no onPreview)
InitPresets ==
  \E item \in {NoItem} \cup {Item(json) : json \in StoredCustoms} :
    Mounted(item, chartBundle, FALSE)

NextPresets ==
  \/ handleSavePreset(MaxOps)
  \/ handleDeletePreset(MaxOps)
  \/ handleImportPresets(MaxOps)
  \/ handleImportMalformed(MaxOps)
  \/ handleExportPresets(MaxOps)

SpecPresets == InitPresets /\ [][NextPresets]_vars

(* -------------------------- the whole dialog ---------------------------- *)

\* RSI period "15" and "150", MA periods "20, 50" and "600"
DialogInputs ==
  {<<"RSI", "period", <<"1", "5">>>>, <<"RSI", "period", <<"1", "5", "0">>>>,
   <<"MA", "periods", <<"2", "0", ",", " ", "5", "0">>>>, <<"MA", "periods", <<"6", "0", "0">>>>}

InitDialog ==
  \E item \in {NoItem} \cup {Item(json) : json \in StoredCustoms}, previewGiven \in BOOLEAN :
    Mounted(item, chartBundle, previewGiven)

NextDialog ==
  \/ Edit(DialogInputs, MaxSteps)
  \/ FirePreview
  \/ TogglePreview(MaxSteps)
  \/ handlePresetSelect(MaxSteps)
  \/ handleSavePreset(MaxSteps)
  \/ handleDeletePreset(MaxSteps)
  \/ handleImportPresets(MaxSteps)
  \/ handleExportPresets(MaxSteps)
  \/ Apply(MaxSteps)
  \/ Cancel(MaxSteps)
  \/ Reopen(MaxSteps)

SpecDialog == InitDialog /\ [][NextDialog]_vars

(* ------------------------------ contracts ------------------------------- *)

\* LimitOrderDEX and LimitOrderKeeper with the mocks of the test suite: two
\* ERC-20 tokens that move exactly the amount asked for and revert when the
\* sender holds less, one price feed per token, and MockSwapRouter.  orders,
\* nextOrderId and priceFeeds are the DEX's storage, lastOrderIdChecked and
\* maxOrdersToCheck the keeper's, balances the tokens' and answers the
\* feeds'.  released counts for every order id the refunds and the swaps
\* made of its escrow, and call is the last external call with its outcome.

Tokens == {"TokenA", "TokenB"}

Accounts == {"owner", "user", "keeper"}

Holders == Accounts \cup {"dex", "router"}

\* the ids a call is made with: the ids of orders, 0 and one id more
OrderIds == 0 .. (MaxOrders + 1)

\* the result of an arithmetic operation that left 0 .. UintMax (Panic 0x11)
\* or divided by zero (Panic 0x12)
Panic == -1

checkedAdd(a, b) == IF a = Panic \/ b = Panic \/ a + b > UintMax THEN Panic ELSE a + b

checkedSub(a, b) == IF a = Panic \/ b = Panic \/ a < b THEN Panic ELSE a - b

checkedMul(a, b) == IF a = Panic \/ b = Panic \/ a * b > UintMax THEN Panic ELSE a * b

checkedDiv(a, b) == IF a = Panic \/ b = Panic \/ b = 0 THEN Panic ELSE a \div b

\* what a call leaves: a revert with its reason and the state as it was, or
\* the new state and the returned value
Reverts(st, reason) == [reverted |-> TRUE, reason |-> reason, result |-> <<>>, st |-> st]

Returns(st, result) == [reverted |-> FALSE, reason |-> "", result |-> result, st |-> st]

\* the storage a transaction of the DEX can write
Chain(ords, next, bal, rel) ==
  [orders |-> ords, nextOrderId |-> next, balances |-> bal, released |-> rel]

\* ERC-20 transfer and transferFrom: a token without code and a sender with
\* less than amount both revert the call
canMove(bal, token, from, amount) == token \in Tokens /\ bal[token][from] >= amount

moved(bal, token, from, to, amount) ==
  [bal EXCEPT ![token][from] = @ - amount, ![token][to] = @ + amount]

\* the accounts that approved the DEX for any amount
Approved == {"user"}

\* a token that keeps a fee of one unit of every transfer to the DEX
createOrder_feeOnTransfer(st, sender, tokenIn, tokenOut, amountIn, amountOutMin, targetPrice) ==
  IF tokenIn = ZeroAddress \/ tokenOut = ZeroAddress THEN Reverts(st, "Invalid token addresses")
  ELSE IF ~(amountIn > 0) THEN Reverts(st, "Amount must be greater than 0")
  ELSE IF ~(sender \in Approved /\ canMove(st.balances, tokenIn, sender, amountIn))
  THEN Reverts(st, "ERC20: transfer amount exceeds balance or allowance")
  ELSE LET orderId == st.nextOrderId
       IN Returns([st EXCEPT
                     !.balances = moved(moved(st.balances, tokenIn, sender, "dex", amountIn),
                                        tokenIn, "dex", "owner", 1),
                     !.nextOrderId = st.nextOrderId + 1,
                     !.orders[orderId] =
                       [owner |-> sender, tokenIn |-> tokenIn, tokenOut |-> tokenOut,
                        amountIn |-> amountIn, amountOutMin |-> amountOutMin,
                        targetPrice |-> targetPrice, status |-> "PENDING"]],
                  orderId)

createOrder(st, sender, tokenIn, tokenOut, amountIn, amountOutMin, targetPrice) ==
  IF tokenIn = ZeroAddress \/ tokenOut = ZeroAddress THEN Reverts(st, "Invalid token addresses")
  ELSE IF ~(amountIn > 0) THEN Reverts(st, "Amount must be greater than 0")
  ELSE IF ~(sender \in Approved /\ canMove(st.balances, tokenIn, sender, amountIn))
  THEN Reverts(st, "ERC20: transfer amount exceeds balance or allowance")
  ELSE LET orderId == st.nextOrderId
       IN Returns([st EXCEPT
                     !.balances = moved(st.balances, tokenIn, sender, "dex", amountIn),
                     !.nextOrderId = st.nextOrderId + 1,
                     !.orders[orderId] =
                       [owner |-> sender, tokenIn |-> tokenIn, tokenOut |-> tokenOut,
                        amountIn |-> amountIn, amountOutMin |-> amountOutMin,
                        targetPrice |-> targetPrice, status |-> "PENDING"]],
                  orderId)

\* the refund went to an account picked by the caller
cancelOrder_anyCaller(st, sender, orderId) ==
  LET order == st.orders[orderId]
  IN IF order.status # "PENDING" THEN Reverts(st, "Order not pending")
     ELSE IF ~canMove(st.balances, order.tokenIn, "dex", order.amountIn)
     THEN Reverts(st, "ERC20: transfer amount exceeds balance")
     ELSE Returns([st EXCEPT
                     !.orders[orderId].status = "CANCELLED",
                     !.balances = moved(st.balances, order.tokenIn, "dex", order.owner,
                                        order.amountIn),
                     !.released[orderId].refunded = @ + 1],
                  <<>>)

cancelOrder(st, sender, orderId) ==
  LET order == st.orders[orderId]
  IN IF order.owner # sender THEN Reverts(st, "Not order owner")
     ELSE IF order.status # "PENDING" THEN Reverts(st, "Order not pending")
     ELSE IF ~canMove(st.balances, order.tokenIn, "dex", order.amountIn)
     THEN Reverts(st, "ERC20: transfer amount exceeds balance")
     ELSE Returns([st EXCEPT
                     !.orders[orderId].status = "CANCELLED",
                     !.balances = moved(st.balances, order.tokenIn, "dex", order.owner,
                                        order.amountIn),
                     !.released[orderId].refunded = @ + 1],
                  <<>>)

getCurrentPrice(feeds, ans, tokenIn, tokenOut) ==
  IF ~(tokenIn \in feeds /\ tokenOut \in feeds) THEN Reverts(<<>>, "Price feed not set")
  ELSE LET inPrice == ans[tokenIn]
           outPrice == ans[tokenOut]
           price == checkedDiv(checkedMul(outPrice, PriceScale), inPrice)
       IN IF ~(inPrice > 0 /\ outPrice > 0) THEN Reverts(<<>>, "Invalid price data")
          ELSE IF price = Panic THEN Reverts(<<>>, "Panic")
          ELSE Returns(<<>>, price)

\* the condition with the comparison turned round
checkPriceCondition_below(feeds, ans, tokenIn, tokenOut, targetPrice) ==
  LET currentPrice == getCurrentPrice(feeds, ans, tokenIn, tokenOut)
  IN IF currentPrice.reverted THEN currentPrice
     ELSE Returns(<<>>, currentPrice.result <= targetPrice)

checkPriceCondition(feeds, ans, tokenIn, tokenOut, targetPrice) ==
  LET currentPrice == getCurrentPrice(feeds, ans, tokenIn, tokenOut)
  IN IF currentPrice.reverted THEN currentPrice
     ELSE Returns(<<>>, currentPrice.result >= targetPrice)

\* MockSwapRouter.exactInputSingle called by the DEX: the router pulls
\* amountIn of tokenIn and pays amountOut of tokenOut to the recipient
exactInputSingle(bal, tokenIn, tokenOut, recipient, amountIn, amountOutMinimum) ==
  IF ~canMove(bal, tokenIn, "dex", amountIn)
  THEN Reverts(bal, "ERC20: transfer amount exceeds balance")
  ELSE LET pulled == moved(bal, tokenIn, "dex", "router", amountIn)
           amountOut == IF amountOutMinimum > 0 THEN amountOutMinimum ELSE amountIn
       IN IF ~canMove(pulled, tokenOut, "router", amountOut)
          THEN Reverts(bal, "ERC20: transfer amount exceeds balance")
          ELSE Returns(moved(pulled, tokenOut, "router", recipient, amountOut), amountOut)

\* approve and the router call
executeSwap(bal, tokenIn, tokenOut, amountIn, amountOutMin, recipient) ==
  IF tokenIn \notin Tokens THEN Reverts(bal, "call to an address without code")
  ELSE exactInputSingle(bal, tokenIn, tokenOut, recipient, amountIn, amountOutMin)

\* the status is not looked at
executeOrder_anyStatus(st, feeds, ans, orderId) ==
  LET order == st.orders[orderId]
      canExecute == checkPriceCondition(feeds, ans, order.tokenIn, order.tokenOut,
                                        order.targetPrice)
      swap == executeSwap(st.balances, order.tokenIn, order.tokenOut, order.amountIn,
                          order.amountOutMin, order.owner)
  IN IF canExecute.reverted THEN Reverts(st, canExecute.reason)
     ELSE IF ~canExecute.result THEN Reverts(st, "Price condition not met")
     ELSE IF swap.reverted THEN Reverts(st, swap.reason)
     ELSE Returns([st EXCEPT
                     !.orders[orderId].status = "EXECUTED",
                     !.balances = swap.st,
                     !.released[orderId].swapped = @ + 1],
                  <<>>)

executeOrder(st, feeds, ans, orderId) ==
  LET order == st.orders[orderId]
      canExecute == checkPriceCondition(feeds, ans, order.tokenIn, order.tokenOut,
                                        order.targetPrice)
      swap == executeSwap(st.balances, order.tokenIn, order.tokenOut, order.amountIn,
                          order.amountOutMin, order.owner)
  IN IF order.status # "PENDING" THEN Reverts(st, "Order not pending")
     ELSE IF canExecute.reverted THEN Reverts(st, canExecute.reason)
     ELSE IF ~canExecute.result THEN Reverts(st, "Price condition not met")
     ELSE IF swap.reverted THEN Reverts(st, swap.reason)
     ELSE Returns([st EXCEPT
                     !.orders[orderId].status = "EXECUTED",
                     !.balances = swap.st,
                     !.released[orderId].swapped = @ + 1],
                  <<>>)

\* LimitOrderKeeper.canExecuteOrder
canExecuteOrder(ords, feeds, ans, orderId) ==
  LET order == ords[orderId]
  IN IF order.status # "PENDING" THEN Returns(<<>>, FALSE)
     ELSE checkPriceCondition(feeds, ans, order.tokenIn, order.tokenOut, order.targetPrice)

\* abi.encode(endOrderId, orderIds), and the empty bytes of the early return
PerformData(endOrderId, orderIds) ==
  [empty |-> FALSE, endOrderId |-> endOrderId, orderIds |-> orderIds]

NoData == [empty |-> TRUE, endOrderId |-> 0, orderIds |-> <<>>]

\* the loop of checkUpkeep over startOrderId .. endOrderId: the ids found
\* executable so far, or the revert of a canExecuteOrder call
RECURSIVE scanOrders(_, _, _, _, _, _)
scanOrders(ords, feeds, ans, i, endOrderId, found) ==
  IF i > endOrderId THEN Returns(<<>>, found)
  ELSE LET isExecutable == canExecuteOrder(ords, feeds, ans, i)
       IN IF isExecutable.reverted THEN isExecutable
          ELSE scanOrders(ords, feeds, ans, i + 1, endOrderId,
                          IF isExecutable.result THEN Append(found, i) ELSE found)

\* checkUpkeep: result is <<upkeepNeeded, performData>>
checkUpkeep(ords, next, feeds, ans, last, maxToCheck) ==
  IF last >= next THEN Returns(<<>>, <<FALSE, NoData>>)
  ELSE LET startOrderId == checkedAdd(last, 1)
           uncapped == checkedSub(checkedAdd(startOrderId, maxToCheck), 1)
           endOrderId == IF uncapped # Panic /\ uncapped > next - 1 THEN next - 1 ELSE uncapped
           size == checkedAdd(checkedSub(endOrderId, startOrderId), 1)
           scan == scanOrders(ords, feeds, ans, startOrderId, endOrderId, <<>>)
       IN IF size = Panic THEN Reverts(<<>>, "Panic")
          ELSE IF scan.reverted THEN scan
          ELSE Returns(<<>>, <<Len(scan.result) > 0, PerformData(endOrderId, scan.result)>>)

\* the loop of performUpkeep: try dex.executeOrder(orderIds[i]) {} catch {}
RECURSIVE executeEach(_, _, _, _)
executeEach(st, feeds, ans, orderIds) ==
  IF orderIds = <<>> THEN st
  ELSE executeEach(executeOrder(st, feeds, ans, Head(orderIds)).st, feeds, ans, Tail(orderIds))

\* performUpkeep: st of the result holds the DEX's storage and the keeper's
\* lastOrderIdChecked
performUpkeep(st, feeds, ans, last, sender, performData) ==
  IF performData.empty THEN Reverts([st |-> st, last |-> last], "abi.decode of empty data")
  ELSE Returns([st |-> executeEach(st, feeds, ans, performData.orderIds),
                last |-> performData.endOrderId], <<>>)

(* -------------------------- calls and blocks ---------------------------- *)

InitialSupply == 2

RouterSupply == 3

\* the prices a feed answers with; 0 is an answer the DEX refuses
AnswerValues == {0, 1, 2}

\* the values the keeper is constructed or set with
KeeperWindows == {0, 1, 2, UintMax}

\* tokenIn, tokenOut, amountIn, amountOutMin and targetPrice of the orders
\* asked for: three the DEX takes, then one without tokenIn, one of amount 0
\* and one of more than the sender holds
OrderInputs ==
  {<<"TokenA", "TokenB", 1, 1, 2>>, <<"TokenA", "TokenB", 2, 0, 4>>,
   <<"TokenB", "TokenA", 1, 1, 1>>, <<ZeroAddress, "TokenB", 1, 1, 2>>,
   <<"TokenA", "TokenB", 0, 1, 2>>, <<"TokenA", "TokenB", InitialSupply + 1, 1, 2>>}

\* performData written by a caller: any endOrderId with no id, the first id,
\* the first id twice or the first two ids
WrittenData ==
  {PerformData(e, ids) : e \in OrderIds \cup {UintMax},
                         ids \in {<<>>, <<1>>, <<1, 1>>, <<2, 1>>}}

Call(fn, sender, args, r) ==
  [fn |-> fn, sender |-> sender, args |-> args, reverted |-> r.reverted, reason |-> r.reason,
   result |-> r.result]

\* the state after the constructors, the mints and the approvals of the
\* test suite's beforeEach
Deployed(feeds, window) ==
  /\ NoChart
  /\ NoDialog
  /\ NoChartData
  /\ orders = [id \in OrderIds |-> NoOrder]
  /\ nextOrderId = 1
  /\ balances = [t \in Tokens |->
                   [h \in Holders |->
                      IF h = "user" THEN InitialSupply
                      ELSE IF h = "router" /\ t = "TokenB" THEN RouterSupply
                      ELSE 0]]
  /\ priceFeeds = feeds
  /\ answers = [t \in Tokens |-> IF t = "TokenA" THEN 2 ELSE 1]
  /\ lastOrderIdChecked = 0
  /\ maxOrdersToCheck = window
  /\ released = [id \in OrderIds |-> [refunded |-> 0, swapped |-> 0]]
  /\ call = Call("constructor", "owner", <<window>>, Returns(<<>>, <<>>))

Storage == Chain(orders, nextOrderId, balances, released)

Written(st) ==
  /\ orders' = st.orders
  /\ nextOrderId' = st.nextOrderId
  /\ balances' = st.balances
  /\ released' = st.released

offChain == <<series, out, dialogVars, chartVars>>

CallCreateOrder ==
  /\ nextOrderId <= MaxOrders
  /\ \E sender \in {"user", "keeper"}, input \in OrderInputs :
       \E r \in {createOrder(Storage, sender, input[1], input[2], input[3], input[4],
                             input[5])} :
          /\ Written(r.st)
          /\ call' = Call("createOrder", sender, input, r)
  /\ UNCHANGED <<priceFeeds, answers, lastOrderIdChecked, maxOrdersToCheck, offChain>>

CallCancelOrder ==
  /\ \E sender \in Accounts, orderId \in OrderIds :
       \E r \in {cancelOrder(Storage, sender, orderId)} :
          /\ Written(r.st)
          /\ call' = Call("cancelOrder", sender, <<orderId>>, r)
  /\ UNCHANGED <<priceFeeds, answers, lastOrderIdChecked, maxOrdersToCheck, offChain>>

CallExecuteOrder ==
  /\ \E sender \in {"user", "keeper"}, orderId \in OrderIds :
       \E r \in {executeOrder(Storage, priceFeeds, answers, orderId)} :
          /\ Written(r.st)
          /\ call' = Call("executeOrder", sender, <<orderId>>, r)
  /\ UNCHANGED <<priceFeeds, answers, lastOrderIdChecked, maxOrdersToCheck, offChain>>

\* setPriceFeed, onlyOwner
CallSetPriceFeed ==
  /\ \E sender \in {"owner", "user"}, token \in Tokens :
       IF sender = "owner"
       THEN /\ priceFeeds' = priceFeeds \cup {token}
            /\ call' = Call("setPriceFeed", sender, <<token>>, Returns(<<>>, <<>>))
       ELSE /\ priceFeeds' = priceFeeds
            /\ call' = Call("setPriceFeed", sender, <<token>>,
                            Reverts(<<>>, "OwnableUnauthorizedAccount"))
  /\ UNCHANGED <<orders, nextOrderId, balances, released, answers, lastOrderIdChecked,
                 maxOrdersToCheck, offChain>>

\* a feed's next round
SetLatestAnswer ==
  /\ \E token \in Tokens, price \in AnswerValues :
       /\ answers' = [answers EXCEPT ![token] = price]
       /\ call' = Call("setLatestAnswerForToken", "owner", <<token, price>>,
                       Returns(<<>>, <<>>))
  /\ UNCHANGED <<orders, nextOrderId, balances, released, priceFeeds, lastOrderIdChecked,
                 maxOrdersToCheck, offChain>>

\* setMaxOrdersToCheck, for the DEX's owner only
CallSetMaxOrdersToCheck ==
  /\ \E sender \in {"owner", "user"}, window \in KeeperWindows :
       IF sender = "owner"
       THEN /\ maxOrdersToCheck' = window
            /\ call' = Call("setMaxOrdersToCheck", sender, <<window>>, Returns(<<>>, <<>>))
       ELSE /\ maxOrdersToCheck' = maxOrdersToCheck
            /\ call' = Call("setMaxOrdersToCheck", sender, <<window>>,
                            Reverts(<<>>, "Only DEX owner can update"))
  /\ UNCHANGED <<orders, nextOrderId, balances, released, priceFeeds, answers,
                 lastOrderIdChecked, offChain>>

\* checkUpkeep simulated off chain
CallCheckUpkeep ==
  /\ call' = Call("checkUpkeep", "automation", <<>>,
                  checkUpkeep(orders, nextOrderId, priceFeeds, answers, lastOrderIdChecked,
                              maxOrdersToCheck))
  /\ UNCHANGED <<orders, nextOrderId, balances, released, priceFeeds, answers,
                 lastOrderIdChecked, maxOrdersToCheck, offChain>>

\* performUpkeep sent by an account with performData of its own
CallPerformUpkeep(senders, written) ==
  /\ \E sender \in senders, performData \in written :
       \E r \in {performUpkeep(Storage, priceFeeds, answers, lastOrderIdChecked, sender,
                               performData)} :
          /\ Written(r.st.st)
          /\ lastOrderIdChecked' = r.st.last
          /\ call' = Call("performUpkeep", sender, <<performData>>, r)
  /\ UNCHANGED <<priceFeeds, answers, maxOrdersToCheck, offChain>>

\* one round of Chainlink automation: checkUpkeep simulated, and
\* performUpkeep sent with the returned data when upkeepNeeded is true
Automation ==
  /\ \E check \in {checkUpkeep(orders, nextOrderId, priceFeeds, answers, lastOrderIdChecked,
                              maxOrdersToCheck)} :
       IF check.reverted \/ ~check.result[1]
       THEN /\ call' = Call("checkUpkeep", "automation", <<>>, check)
            /\ UNCHANGED <<orders, nextOrderId, balances, released, lastOrderIdChecked>>
       ELSE \E r \in {performUpkeep(Storage, priceFeeds, answers, lastOrderIdChecked,
                                    "automation", check.result[2])} :
               /\ Written(r.st.st)
               /\ lastOrderIdChecked' = r.st.last
               /\ call' = Call("performUpkeep", "automation", <<check.result[2]>>, r)
  /\ UNCHANGED <<priceFeeds, answers, maxOrdersToCheck, offChain>>

\* the DEX with its users, its owner and the accounts that run upkeep
InitDEX == Deployed({"TokenA"}, 2)

NextDEX ==
  \/ CallCreateOrder
  \/ CallCancelOrder
  \/ CallExecuteOrder
  \/ CallSetPriceFeed
  \/ SetLatestAnswer
  \/ CallPerformUpkeep({"keeper"}, {d \in WrittenData : d.endOrderId = 0})

SpecDEX == InitDEX /\ [][NextDEX]_vars

\* the keeper under automation and under callers of performUpkeep
InitKeeper == \E window \in KeeperWindows : Deployed(Tokens, window)

NextKeeper ==
  \/ CallCreateOrder
  \/ SetLatestAnswer
  \/ CallCheckUpkeep
  \/ CallPerformUpkeep({"user", "keeper"}, WrittenData)
  \/ CallSetMaxOrdersToCheck
  \/ Automation

SpecKeeper == InitKeeper /\ [][NextKeeper]_vars

\* orders, prices and automation alone, automation never stopping
NextAutomated ==
  \/ CallCreateOrder
  \/ SetLatestAnswer
  \/ Automation

SpecAutomated == InitKeeper /\ [][NextAutomated]_vars /\ WF_vars(Automation)

(* --------------------------- the chart's points ------------------------- *)

\* A point of chartData is a bar with the indicator fields it carries;
\* fields maps the names of the fields that are present to their values.
\* A name is <<"ma", N>> for ma{N} and <<name, 0>> for the others.
\* indicatorParams maps the indicators it holds to their parameters, periods
\* being integers.

Point(bar, fields) == [bar |-> bar, fields |-> fields]

NoFields == [n \in {} |-> Null]

Field(name) == <<name, 0>>

MaField(period) == <<"ma", period>>

With(fields, name, value) ==
  [n \in DOMAIN fields \cup {name} |-> IF n = name THEN value ELSE fields[n]]

\* if (value !== null) point[name] = value
WithUnlessNull(fields, name, value) == IF IsNull(value) THEN fields ELSE With(fields, name, value)

barsOf(data) == [i \in DOMAIN data |-> data[i].bar]

\* indicatorParams[indicator]?.[param] || fallback, and a destructuring default
ParamOr(p, indicator, param, fallback) ==
  IF indicator \in DOMAIN p /\ param \in DOMAIN p[indicator] THEN p[indicator][param]
  ELSE fallback

\* periods.forEach of the fetch path
RECURSIVE enrichedMA(_, _, _, _)
enrichedMA(fields, mockData, periods, index) ==
  IF periods = <<>> THEN fields
  ELSE enrichedMA(WithUnlessNull(fields, MaField(Head(periods)),
                                 calculateMA(mockData, Head(periods))[index]),
                  mockData, Tail(periods), index)

\* one assignment to a field of a point: unlessNull tells that the code makes
\* it under if (value !== null)
Write(name, value, unlessNull) == [name |-> name, value |-> value, unlessNull |-> unlessNull]

\* the assignments of one candle, made in the order the code makes them
RECURSIVE WithEach(_, _)
WithEach(fields, writes) ==
  IF writes = <<>> THEN fields
  ELSE WithEach(IF Head(writes).unlessNull
                THEN WithUnlessNull(fields, Head(writes).name, Head(writes).value)
                ELSE With(fields, Head(writes).name, Head(writes).value),
                Tail(writes))

\* if (bands[index]) { upperBand = ...; lowerBand = ...; middleBand = ... }
bandWrites(bands) ==
  IF bands.isNull THEN <<>>
  ELSE <<Write(Field("upperBand"), bands.upper, FALSE),
         Write(Field("lowerBand"), bands.lower, FALSE),
         Write(Field("middleBand"), bands.middle, FALSE)>>

macdWrites(macd, index) ==
  <<Write(Field("macd"), macd.macd[index], TRUE),
    Write(Field("signal"), macd.signal[index], TRUE),
    Write(Field("histogram"), macd.histogram[index], TRUE)>>

stochWrites(stoch, index) ==
  <<Write(Field("stochK"), stoch.k[index], TRUE),
    Write(Field("stochD"), stoch.d[index], TRUE)>>

adxWrites(adxData, index) ==
  <<Write(Field("adx"), adxData.adx[index], TRUE),
    Write(Field("plusDI"), adxData.plusDI[index], TRUE),
    Write(Field("minusDI"), adxData.minusDI[index], TRUE)>>

\* the enriched candle the fetch path builds at index; adxData is the result
\* of calculateADX, which did not throw
enrichedCandle(mockData, active, p, adxData, index) ==
  WithEach(
    IF "MA" \in active
    THEN enrichedMA(NoFields, mockData, ParamOr(p, "MA", "periods", <<20, 50, 200>>), index)
    ELSE NoFields,
    (IF "RSI" \in active
     THEN <<Write(Field("rsi"),
                  calculateRSI(mockData, ParamOr(p, "RSI", "period", 14))[index], TRUE)>>
     ELSE <<>>)
    \o (IF "Bollinger Bands" \in active
        THEN bandWrites(calculateBollingerBands(
                          mockData,
                          ParamOr(p, "Bollinger Bands", "period", 20),
                          ParamOr(p, "Bollinger Bands", "stdDev", Val(2)))[index])
        ELSE <<>>)
    \o (IF "MACD" \in active
        THEN macdWrites(calculateMACD(mockData, ParamOr(p, "MACD", "fastPeriod", 12),
                                      ParamOr(p, "MACD", "slowPeriod", 26),
                                      ParamOr(p, "MACD", "signalPeriod", 9)), index)
        ELSE <<>>)
    \o (IF "Stochastic" \in active
        THEN stochWrites(calculateStochastic(mockData,
                                             ParamOr(p, "Stochastic", "period", 14),
                                             ParamOr(p, "Stochastic", "smoothK", 3),
                                             ParamOr(p, "Stochastic", "smoothD", 3)), index)
        ELSE <<>>)
    \o (IF "ADX" \in active THEN adxWrites(adxData, index) ELSE <<>>))

\* mockData.map of fetchData: threw tells that calculateADX raised, and then
\* the catch reports the error and setChartData is not reached
enrichedData(mockData, active, p) ==
  LET adxData == calculateADX(mockData, ParamOr(p, "ADX", "period", 14))
  IN IF "ADX" \in active /\ adxData.threw THEN [threw |-> TRUE, data |-> NoArray]
     ELSE [threw |-> FALSE,
           data |-> [index \in DOMAIN mockData |->
                       Point(mockData[index],
                             enrichedCandle(mockData, active, p, adxData, index))]]

\* params.MA.periods.forEach of calculateIndicators: the mean of the closes
\* of data.slice(Math.max(0, i - period + 1), i + 1), written at every index
RECURSIVE recomputedMA(_, _, _, _)
recomputedMA(fields, data, periods, index) ==
  IF periods = <<>> THEN fields
  ELSE LET lo == Max2(0, index - Head(periods) + 1)
           ma == Div(SumSlice(closes(data), lo, index + 1), Val(index + 1 - lo))
       IN recomputedMA(With(fields, MaField(Head(periods)), ma), data, Tail(periods), index)

\* the RSI of calculateIndicators: the changes inside data.slice(i - period, i),
\* the first of them counted as 0
recomputedRSI(data, period, index) ==
  LET avgGain == Div(SumSlice(gains(data), index - period + 1, index), Val(period))
      avgLoss == Div(SumSlice(losses(data), index - period + 1, index), Val(period))
      rs == Div(avgGain, OrOne(avgLoss))
  IN Sub(Val(100), Div(Val(100), Add(Val(1), rs)))

\* the fields of the point calculateIndicators returns for data[index]: those
\* of the old point (old), then the ones written over them; data holds the
\* bars of the points
recomputedPoint(data, old, p, adxData, index) ==
  WithEach(
    IF "MA" \in DOMAIN p /\ "periods" \in DOMAIN p["MA"]
    THEN recomputedMA(old, data, p["MA"].periods, index)
    ELSE old,
    (IF "RSI" \in DOMAIN p /\ p["RSI"].period # 0 /\ index >= p["RSI"].period
     THEN <<Write(Field("rsi"), recomputedRSI(data, p["RSI"].period, index), FALSE)>>
     ELSE <<>>)
    \o (IF /\ "Bollinger Bands" \in DOMAIN p
           /\ p["Bollinger Bands"].period # 0 /\ Truthy(p["Bollinger Bands"].stdDev)
           /\ index >= p["Bollinger Bands"].period
        THEN bandWrites(calculateBollingerBands(data, p["Bollinger Bands"].period,
                                                p["Bollinger Bands"].stdDev)[index])
        ELSE <<>>)
    \o (IF "MACD" \in DOMAIN p
        THEN macdWrites(calculateMACD(data, p["MACD"].fastPeriod, p["MACD"].slowPeriod,
                                      p["MACD"].signalPeriod), index)
        ELSE <<>>)
    \o (IF "Stochastic" \in DOMAIN p
        THEN stochWrites(calculateStochastic(data, p["Stochastic"].period,
                                             p["Stochastic"].smoothK,
                                             p["Stochastic"].smoothD), index)
        ELSE <<>>)
    \o (IF "ADX" \in DOMAIN p THEN adxWrites(adxData, index) ELSE <<>>))

\* calculateIndicators(data, params): threw tells that calculateADX raised,
\* and then setChartData is not reached
calculateIndicators(data, p) ==
  LET bars == barsOf(data)
      adxData == IF "ADX" \in DOMAIN p THEN calculateADX(bars, p["ADX"].period)
                 ELSE [threw |-> FALSE, adx |-> NoArray, plusDI |-> NoArray,
                       minusDI |-> NoArray]
  IN IF adxData.threw THEN [threw |-> TRUE, data |-> data]
     ELSE [threw |-> FALSE,
           data |-> [index \in DOMAIN data |->
                       Point(data[index].bar,
                             recomputedPoint(bars, data[index].fields, p, adxData, index))]]

\* the indicatorParams the chart starts with
chartDefaults ==
  [i \in Indicators |->
     CASE i = "MA" -> [periods |-> <<20, 50, 200>>]
       [] i = "RSI" -> [period |-> 14]
       [] i = "Bollinger Bands" -> [period |-> 20, stdDev |-> Val(2)]
       [] i = "MACD" -> [fastPeriod |-> 12, slowPeriod |-> 26, signalPeriod |-> 9]
       [] i = "Stochastic" -> [period |-> 14, smoothK |-> 3, smoothD |-> 3]
       [] OTHER -> [period |-> 14]]

\* bundles the dialog hands to onChange: the defaults with short MA, RSI and
\* Bollinger periods, the same with one MA period less, and the indicators
\* of the built-in preset 'Trend Following' alone
AppliedParams ==
  {[chartDefaults EXCEPT !["MA"] = [periods |-> <<2, 3>>], !["RSI"] = [period |-> 2],
                         !["Bollinger Bands"] = [period |-> 5, stdDev |-> Val(2)]],
   [chartDefaults EXCEPT !["MA"] = [periods |-> <<3>>], !["RSI"] = [period |-> 2],
                         !["Bollinger Bands"] = [period |-> 5, stdDev |-> Val(2)]],
   [i \in {"MA", "ADX"} |-> chartDefaults[i]]}

\* the closes of the series the data source delivers, six bars each
ChartCloses == {<<1, 2, 3, 2, 1, 2>>, <<2, 2, 1, 3, 3, 1>>, <<1, 1, 1, 1, 1, 1>>}

ChartSeries == {[i \in 0 .. 5 |-> Bar(c[i + 1], c[i + 1], c[i + 1] + 1)] : c \in ChartCloses}

\* the chart mounted on the initial data, no indicator active
InitChart ==
  /\ \E mockData \in ChartSeries :
       chartData = [i \in DOMAIN mockData |-> Point(mockData[i], NoFields)]
  /\ indicatorParams = chartDefaults
  /\ activeIndicators = {}
  /\ NoChart
  /\ NoDialog
  /\ NoContracts

\* the effect's fetchData, at mount, every minute and after a change of
\* activeIndicators or indicatorParams
fetchData ==
  /\ \E mockData \in ChartSeries :
       \E r \in {enrichedData(mockData, activeIndicators, indicatorParams)} :
          chartData' = IF r.threw THEN chartData ELSE r.data
  /\ UNCHANGED <<indicatorParams, activeIndicators, series, out, dialogVars, chainVars>>

handleIndicatorToggle ==
  /\ \E indicator \in Indicators :
       activeIndicators' = IF indicator \in activeIndicators
                           THEN activeIndicators \ {indicator}
                           ELSE activeIndicators \cup {indicator}
  /\ UNCHANGED <<chartData, indicatorParams, series, out, dialogVars, chainVars>>

\* onChange of the settings dialog
handleIndicatorParamsChange ==
  /\ \E newParams \in AppliedParams :
       /\ indicatorParams' = newParams
       /\ chartData' = calculateIndicators(chartData, newParams).data
  /\ UNCHANGED <<activeIndicators, series, out, dialogVars, chainVars>>

NextChart == fetchData \/ handleIndicatorToggle \/ handleIndicatorParamsChange

SpecChart == InitChart /\ [][NextChart]_vars

(* ------------------------ close-based indicators ------------------------ *)

L == Length(series)

\* close[lo] + ... + close[hi], an integer
RECURSIVE CloseSum(_, _)
CloseSum(lo, hi) == IF hi < lo THEN 0 ELSE series[lo].close + CloseSum(lo + 1, hi)

\* C1: calculateMA returns an array as long as the series; for 1 <= N <= L
\* index i is null exactly when i < N-1 and otherwise holds the arithmetic
\* mean of close over [i-N+1, i] (so N = 1 returns the closes).
C1_MAWarmupAndMean ==
  (out.kind = "MA" /\ out.params[1] <= L) =>
    LET N == out.params[1]
    IN /\ DOMAIN out.r1 = DOMAIN series
       /\ \A i \in DOMAIN series :
            /\ IsNull(out.r1[i]) <=> i < N - 1
            /\ i >= N - 1 => out.r1[i] = Num(CloseSum(i - N + 1, i), N)
       /\ N = 1 => out.r1 = closes(series)

\* closes [1,2,3,4,5] with N = 3 give [_, _, 2, 3, 4]
C1_Witness ==
  /\ out.kind = "MA"
  /\ out.params = <<3>>
  /\ series = ExampleSeries
  /\ out.r1 = [i \in 0 .. 4 |-> IF i < 2 THEN Null ELSE Val(i)]

\* gains and losses summed over the N steps ending at i
RECURSIVE GainSum(_, _)
GainSum(lo, hi) ==
  IF hi < lo THEN 0
  ELSE (IF lo > 0 /\ series[lo].close > series[lo - 1].close
          THEN series[lo].close - series[lo - 1].close ELSE 0) + GainSum(lo + 1, hi)

RECURSIVE LossSum(_, _)
LossSum(lo, hi) ==
  IF hi < lo THEN 0
  ELSE (IF lo > 0 /\ series[lo].close < series[lo - 1].close
          THEN series[lo - 1].close - series[lo].close ELSE 0) + LossSum(lo + 1, hi)

\* 100 - 100/(1+RS) with RS = avgGain/avgLoss, avgLoss = 0 replaced by 1:
\* 100*G/(G+Ls) when the loss sum Ls is not 0, and 100*G/(G+N) when it is
GuardedRSI(i, N) ==
  LET G == GainSum(i - N + 1, i)
      Ls == LossSum(i - N + 1, i)
  IN Num(100 * G, G + (IF Ls = 0 THEN N ELSE Ls))

\* C2: calculateRSI is null for i < N and for i >= N equals 100 - 100/(1+RS),
\* RS = avgGain/avgLoss over the N steps ending at i, an avgLoss of 0 being
\* replaced by the denominator 1 (so a series with no falling step has the
\* finite value 100 - 100/(1+avgGain)).
C2_RSIGuardedFormula ==
  out.kind = "RSI" =>
    LET N == out.params[1]
    IN \A i \in DOMAIN series :
         /\ i < N => IsNull(out.r1[i])
         /\ i >= N => out.r1[i] = GuardedRSI(i, N)

\* C3: every defined (non-null) value calculateRSI returns lies in [0, 100].
C3_RSIInRange ==
  out.kind = "RSI" =>
    \A i \in DOMAIN out.r1 :
      ~IsNull(out.r1[i]) => Le(Val(0), out.r1[i]) /\ Le(out.r1[i], Val(100))

\* C4 as claimed: macd is defined exactly from index slowPeriod-1 onward and
\* is MA(fast) - MA(slow) there, for every admitted (fastPeriod, slowPeriod).
C4_MacdFromSlowPeriod ==
  out.kind = "MACD" =>
    LET fast == out.params[1]
        slow == out.params[2]
    IN \A i \in DOMAIN series :
         /\ ~IsNull(out.r1[i]) <=> i >= slow - 1
         /\ i >= slow - 1 =>
              out.r1[i] = Num(CloseSum(i - fast + 1, i) * slow - CloseSum(i - slow + 1, i) * fast,
                              fast * slow)

\* C4 amended: macd is defined exactly where both moving averages are, which
\* is from index max(fastPeriod, slowPeriod)-1 onward, and is
\* MA(fast) - MA(slow) there.
C4_MacdFromLongerPeriod ==
  out.kind = "MACD" =>
    LET fast == out.params[1]
        slow == out.params[2]
        first == Max2(fast, slow) - 1
    IN /\ DOMAIN out.r1 = DOMAIN series
       /\ \A i \in DOMAIN series :
            /\ ~IsNull(out.r1[i]) <=> i >= first
            /\ ~IsNull(out.r1[i]) <=>
                 (~IsNull(calculateMA(series, fast)[i]) /\ ~IsNull(calculateMA(series, slow)[i]))
            /\ i >= first =>
                 out.r1[i] = Num(CloseSum(i - fast + 1, i) * slow - CloseSum(i - slow + 1, i) * fast,
                                 fast * slow)

\* fastPeriod > slowPeriod: macd absent at an index >= slowPeriod-1, defined later
C4_Witness ==
  /\ out.kind = "MACD"
  /\ out.params[1] > out.params[2]
  /\ \E i \in DOMAIN series : i >= out.params[2] - 1 /\ IsNull(out.r1[i])
  /\ \E i \in DOMAIN series : ~IsNull(out.r1[i]) /\ out.r1[i] # Val(0)

\* fast*slow*macd[j] as an integer, 0 where macd is absent
ScaledMacd(j, fast, slow) ==
  IF j < Max2(fast, slow) - 1 THEN 0
  ELSE CloseSum(j - fast + 1, j) * slow - CloseSum(j - slow + 1, j) * fast

RECURSIVE ScaledMacdSum(_, _, _, _)
ScaledMacdSum(lo, hi, fast, slow) ==
  IF hi < lo THEN 0 ELSE ScaledMacd(lo, fast, slow) + ScaledMacdSum(lo + 1, hi, fast, slow)

\* C5: signal is defined at every index i >= signalPeriod-1 (also where macd
\* is absent) and is the mean over [i-signalPeriod+1, i] of macd with every
\* absent entry replaced by 0.
C5_SignalZeroSubstitution ==
  out.kind = "MACD" =>
    LET fast == out.params[1]
        slow == out.params[2]
        sp == out.params[3]
    IN \A i \in DOMAIN series :
         /\ i < sp - 1 => IsNull(out.r2[i])
         /\ i >= sp - 1 =>
              out.r2[i] = Num(ScaledMacdSum(i - sp + 1, i, fast, slow), fast * slow * sp)

\* a signal value whose window holds both absent and non-zero macd entries
C5_Witness ==
  /\ out.kind = "MACD"
  /\ \E i \in DOMAIN series :
       /\ IsNull(out.r1[i])
       /\ ~IsNull(out.r2[i])
  /\ \E i \in DOMAIN series :
       /\ i >= out.params[3] - 1
       /\ \E j \in (i - out.params[3] + 1) .. i : IsNull(out.r1[j])
       /\ \E j \in (i - out.params[3] + 1) .. i : ~IsNull(out.r1[j]) /\ out.r1[j] # Val(0)
       /\ out.r2[i] # Val(0)

\* C6: histogram is defined exactly where macd and signal both are, and is
\* macd - signal there; it is absent wherever macd is absent.
C6_HistogramIdentity ==
  out.kind = "MACD" =>
    \A i \in DOMAIN series :
      LET m == out.r1[i]
          sg == out.r2[i]
          h == out.r3[i]
      IN /\ ~IsNull(h) <=> (~IsNull(m) /\ ~IsNull(sg))
         /\ IsNull(m) => IsNull(h)
         /\ ~IsNull(h) => h = Num(m[2] * sg[3] - sg[2] * m[3], m[3] * sg[3])

\* signal already defined while macd and histogram are absent, and a later
\* non-zero histogram value
C6_Witness ==
  /\ out.kind = "MACD"
  /\ \E i \in DOMAIN series : IsNull(out.r1[i]) /\ ~IsNull(out.r2[i]) /\ IsNull(out.r3[i])
  /\ \E i \in DOMAIN series : ~IsNull(out.r3[i]) /\ out.r3[i] # Val(0)

(* ------------------------------ stochastic ------------------------------ *)

Max3(a, b, c) == Max2(a, Max2(b, c))

\* raw %K of index j: 100*(close - lowest low)/(highest high - lowest low)
\* over the period bars ending at j, not a number when that range is 0
RawK(j, period) ==
  LET hh == highestHigh(series, j - period + 1, j)
      ll == lowestLow(series, j - period + 1, j)
  IN IF hh = ll THEN NaN ELSE Num(100 * (series[j].close - ll), hh - ll)

RECURSIVE RawKSum(_, _, _)
RawKSum(lo, hi, period) ==
  IF hi < lo THEN Val(0) ELSE Add(RawK(lo, period), RawKSum(lo + 1, hi, period))

RECURSIVE ArraySum(_, _, _)
ArraySum(a, lo, hi) == IF hi < lo THEN Val(0) ELSE Add(a[lo], ArraySum(a, lo + 1, hi))

\* C7 as claimed: smoothed %K is absent until period+smoothK-1 bars are in
\* (indices below period+smoothK-2) and %D until period+smoothK+smoothD-2
\* bars are in; a defined %K averages exactly smoothK raw values and a
\* defined %D exactly smoothD smoothed values.
C7_StochFullWindows ==
  out.kind = "Stochastic" =>
    LET period == out.params[1]
        sK == out.params[2]
        sD == out.params[3]
    IN \A i \in DOMAIN series :
         /\ i < period + sK - 2 => IsNull(out.r1[i])
         /\ i < period + sK + sD - 3 => IsNull(out.r2[i])
         /\ ~IsNull(out.r1[i]) => CountValid(out.r3, i - sK + 1, i) = sK
         /\ ~IsNull(out.r2[i]) => CountValid(out.r1, i - sD + 1, i) = sD

\* C7 amended: smoothed %K is absent exactly at the indices below
\* max(period, smoothK)-1 and is otherwise the mean of the raw %K values that
\* exist among the last smoothK indices; %D is absent exactly at the indices
\* below max(period, smoothK, smoothD)-1 and is otherwise the mean of the
\* smoothed %K values that exist among the last smoothD indices.
C7_StochPartialWindows ==
  out.kind = "Stochastic" =>
    LET period == out.params[1]
        sK == out.params[2]
        sD == out.params[3]
        firstK == Max2(period, sK) - 1
        firstD == Max3(period, sK, sD) - 1
    IN /\ DOMAIN out.r1 = DOMAIN series
       /\ DOMAIN out.r2 = DOMAIN series
       /\ \A i \in DOMAIN series :
            LET loK == Max2(i - sK + 1, period - 1)
                loD == Max2(i - sD + 1, firstK)
            IN /\ IsNull(out.r1[i]) <=> i < firstK
               /\ i >= firstK => out.r1[i] = Div(RawKSum(loK, i, period), Val(i - loK + 1))
               /\ IsNull(out.r2[i]) <=> i < firstD
               /\ i >= firstD => out.r2[i] = Div(ArraySum(out.r1, loD, i), Val(i - loD + 1))

\* period 2, smoothK 2, smoothD 2: %K present at index 1 from a single raw
\* value, %D present at index 1 from a single smoothed value
C7_Witness ==
  /\ out.kind = "Stochastic"
  /\ out.params = <<2, 2, 2>>
  /\ Length(series) >= 3
  /\ IsNull(out.r3[0]) /\ IsFinite(out.r3[1])
  /\ IsFinite(out.r1[1]) /\ out.r1[1] = out.r3[1]
  /\ IsFinite(out.r2[1]) /\ out.r2[1] = out.r1[1]
  /\ IsFinite(out.r1[2]) /\ out.r1[2] # out.r3[2]
  /\ IsFinite(out.r2[2]) /\ out.r2[2] # out.r1[2]

\* C8: for bars with low <= close <= high, every finite smoothed %K and %D
\* value lies in [0, 100].
C8_StochInRange ==
  out.kind = "Stochastic" =>
    \A i \in DOMAIN series :
      /\ IsFinite(out.r1[i]) => Le(Val(0), out.r1[i]) /\ Le(out.r1[i], Val(100))
      /\ IsFinite(out.r2[i]) => Le(Val(0), out.r2[i]) /\ Le(out.r2[i], Val(100))

\* finite values strictly inside the range, the extremes 0 and 100 among the
\* raw values, and a zero-range window whose value is not finite
C8_Witness ==
  /\ out.kind = "Stochastic"
  /\ \A i \in DOMAIN series : series[i].low <= series[i].close /\ series[i].close <= series[i].high
  /\ \E i \in DOMAIN series : IsFinite(out.r1[i]) /\ Lt(Val(0), out.r1[i]) /\ Lt(out.r1[i], Val(100))
  /\ \E i \in DOMAIN series : IsFinite(out.r2[i]) /\ Lt(Val(0), out.r2[i]) /\ Lt(out.r2[i], Val(100))
  /\ \E i \in DOMAIN series : out.r3[i] = Val(100)
  /\ \E i \in DOMAIN series : out.r3[i] = Val(0)

(* --------------------------------- ADX ---------------------------------- *)

\* the smoothed true range is not 0 at any index from period on
NonZeroSmoothedTR(period) ==
  \A i \in DOMAIN series :
    i >= period => smoothed(trDm(series), period, i).tr # Val(0)

\* every DX value from index period on is a finite number (no division by 0
\* in the directional indicators)
FiniteDX(period) ==
  \A i \in DOMAIN series :
    i >= period => IsFinite(indicators(series, period)[i].dx)

\* C9: for a series with non-zero smoothed true range calculateADX returns
\* plusDI and minusDI absent exactly at the indices i < period and adx absent
\* exactly at the indices i < 2*period-1, also where a DX value is 0.
\* Stated for the series whose DX values are all finite.
C9_AdxPresence ==
  (out.kind = "ADX" /\ NonZeroSmoothedTR(out.params[1]) /\ FiniteDX(out.params[1])) =>
    LET period == out.params[1]
    IN /\ ~out.threw
       /\ DOMAIN out.r1 = DOMAIN series
       /\ \A i \in DOMAIN series :
            /\ IsNull(out.r2[i]) <=> i < period
            /\ IsNull(out.r3[i]) <=> i < period
            /\ IsNull(out.r1[i]) <=> i < 2 * period - 1

\* C10: the first defined ADX value is the simple average of DX over
\* period..2*period-1 and every later one is
\* (previousADX*(period-1) + DX[i]) / period, also where a DX value is 0.
\* Stated for the series whose DX values are all finite.
C10_AdxSeedAndRecurrence ==
  (out.kind = "ADX" /\ FiniteDX(out.params[1])) =>
    LET period == out.params[1]
        dx == dxOf(indicators(series, period))
    IN /\ ~out.threw
       /\ \A i \in DOMAIN series :
            /\ i = 2 * period - 1 =>
                 out.r1[i] = Div(ArraySum(dx, period, 2 * period - 1), Val(period))
            /\ i > 2 * period - 1 =>
                 out.r1[i] = Div(Add(Mul(out.r1[i - 1], Val(period - 1)), dx[i]), Val(period))

(* --------------------------- Bollinger bands ---------------------------- *)

\* close[lo]^2 + ... + close[hi]^2, an integer
RECURSIVE CloseSquareSum(_, _)
CloseSquareSum(lo, hi) ==
  IF hi < lo THEN 0 ELSE series[lo].close * series[lo].close + CloseSquareSum(lo + 1, hi)

\* the population variance of close over [i-N+1, i]: (N*sum(c^2) - sum(c)^2) / N^2
PopulationVariance(i, N) ==
  Num(N * CloseSquareSum(i - N + 1, i) - CloseSum(i - N + 1, i) * CloseSum(i - N + 1, i),
      N * N)

\* s - x and x - s for a band value s and a number x
SurdMinusNum(s, x) == Surd(Sub(s.rat, x), s.coef, s.rad)

NumMinusSurd(x, s) == Surd(Sub(x, s.rat), Neg(s.coef), s.rad)

\* C11: calculateBollingerBands returns a band triple exactly at the indices
\* i >= N-1 where the period-N moving average is defined and nothing below;
\* there middle is the mean of close over [i-N+1, i] and upper - middle =
\* middle - lower = k times the population standard deviation of close over
\* that window.
C11_BollingerBands ==
  out.kind = "Bollinger" =>
    LET N == out.params[1]
        k == out.params[2]
    IN /\ DOMAIN out.r1 = DOMAIN series
       /\ \A i \in DOMAIN series :
            /\ out.r1[i].isNull <=> i < N - 1
            /\ i >= N - 1 =>
                 LET b == out.r1[i]
                     kSigma == Surd(Val(0), k, PopulationVariance(i, N))
                 IN /\ b.middle = Num(CloseSum(i - N + 1, i), N)
                    /\ SurdMinusNum(b.upper, b.middle) = kSigma
                    /\ NumMinusSurd(b.middle, b.lower) = kSigma

\* closes [1,2,1,2,1] with N = 5 and k = 2: mean 7/5, variance 6/25
C11_Witness ==
  /\ out.kind = "Bollinger"
  /\ out.params = <<5, Val(2)>>
  /\ closes(series) = [i \in 0 .. 4 |-> Val(IF i % 2 = 0 THEN 1 ELSE 2)]
  /\ out.r1[3].isNull
  /\ out.r1[4] = [isNull |-> FALSE, middle |-> Num(7, 5),
                  upper |-> Surd(Num(7, 5), Val(2), Num(6, 25)),
                  lower |-> Surd(Num(7, 5), Val(-2), Num(6, 25))]

(* --------------------------- field validation --------------------------- *)

\* the value the dialog shows in the input of field f
FieldValue(h, lp, f) == h[lp[f[1]]][f[2]]

\* the message shown under the input of field f, <<>> when there is none
ErrorAt(errs, f) ==
  IF f[1] \in DOMAIN errs /\ f[2] \in DOMAIN errs[f[1]] THEN errs[f[1]][f[2]] ELSE <<>>

\* every field but f has the value and the message it had
OtherFieldsKept(f) ==
  \A g \in Fields \ {f} :
    /\ FieldValue(heap', localParams', g) = FieldValue(heap, localParams, g)
    /\ ErrorAt(errors', g) = ErrorAt(errors, g)

\* C12: validateAndUpdate on a single-valued parameter with a raw value that
\* is not a number or lies outside the rule's [min, max] records 'Value must
\* be between {min} and {max}' for that field and keeps the stored value; a
\* value inside [min, max] is stored and the field's message removed; the
\* values and messages of every other field stay as they were.
C12_SingleValueValidation ==
  [][(event'.op = "validateAndUpdate" /\ <<event'.arg[1], event'.arg[2]>> # <<"MA", "periods">>) =>
       LET f == <<event'.arg[1], event'.arg[2]>>
           rules == validationRules[f[1]][f[2]]
           v == parseFloat(event'.arg[3])
           inside == Le(rules.min, v) /\ Le(v, rules.max)
       IN /\ ~inside =>
               /\ ErrorAt(errors', f) = <<"Value must be between ", rules.min, " and ", rules.max>>
               /\ FieldValue(heap', localParams', f) = FieldValue(heap, localParams, f)
          /\ inside =>
               /\ ErrorAt(errors', f) = <<>>
               /\ FieldValue(heap', localParams', f) = v
          /\ OtherFieldsKept(f)]_vars

\* RSI period "150" after another field was refused: the message carries the
\* bounds 2 and 100, the period is still 14, the other message is still there
C12_Witness ==
  /\ event = Event("validateAndUpdate", <<"RSI", "period", <<"1", "5", "0">>>>)
  /\ ErrorAt(errors, <<"RSI", "period">>) = <<"Value must be between ", Val(2), " and ", Val(100)>>
  /\ FieldValue(heap, localParams, <<"RSI", "period">>) = Val(14)
  /\ ErrorAt(errors, <<"ADX", "period">>) # <<>>

\* C13: for MA periods validateAndUpdate parses the comma-separated input
\* into integers and drops the entries that are no number; when any parsed
\* value is below 1 or above 500 the stored list stays as it was and
\* 'Periods must be between 1 and 500' is recorded, otherwise the stored list
\* becomes the parsed list and the field's message is removed.
C13_PeriodsAllOrNothing ==
  [][(event'.op = "validateAndUpdate" /\ <<event'.arg[1], event'.arg[2]>> = <<"MA", "periods">>) =>
       LET f == <<"MA", "periods">>
           parsed == parsePeriods(event'.arg[3])
           anyOutside == \E n \in 1 .. Len(parsed) :
                           Lt(parsed[n], Val(1)) \/ Lt(Val(500), parsed[n])
       IN /\ \A n \in 1 .. Len(parsed) : IsFinite(parsed[n]) /\ parsed[n][3] = 1
          /\ anyOutside =>
               /\ ErrorAt(errors', f) = <<"Periods must be between ", Val(1), " and ", Val(500)>>
               /\ FieldValue(heap', localParams', f) = FieldValue(heap, localParams, f)
          /\ ~anyOutside =>
               /\ ErrorAt(errors', f) = <<>>
               /\ FieldValue(heap', localParams', f) = parsed]_vars

\* "20, 50" is stored as [20, 50] after "600" had been refused
C13_Witness ==
  /\ event = Event("validateAndUpdate", <<"MA", "periods", <<"2", "0", ",", " ", "5", "0">>>>)
  /\ FieldValue(heap, localParams, <<"MA", "periods">>) = <<Val(20), Val(50)>>
  /\ DOMAIN errors = {}
  /\ steps = 2
  /\ parsePeriods(<<"6", "0", "0">>) = <<Val(600)>>
  /\ parsePeriods(<<"1", "0", ",", "a", ",", "3", "0">>) = <<Val(10), Val(30)>>

(* ------------------------ preview and delivery -------------------------- *)

\* C14: onPreview and onChange are never invoked while the error map is
\* non-empty, whatever the field edits, preset selections and expiries of
\* the debounce timer before.
C14_NoDeliveryWhileErrors ==
  delivered.via # "none" => DOMAIN errors = {}

\* value v of parameter param of indicator satisfies its validation rule
InsideRule(indicator, param, v) ==
  LET rules == validationRules[indicator][param]
  IN IF param = "periods"
     THEN \A n \in 1 .. Len(v) : Le(rules.min, v[n]) /\ Le(v[n], rules.max)
     ELSE Le(rules.min, v) /\ Le(v, rules.max)

\* C15: every parameter bundle handed to onPreview or onChange has every
\* value inside the [min, max] of its validation rule, whatever the edits,
\* preset selections, saves and imports before.
C15_DeliveredInsideRules ==
  delivered.via # "none" =>
    \A indicator \in DOMAIN delivered.bundle :
      \A param \in DOMAIN delivered.bundle[indicator] :
        InsideRule(indicator, param, delivered.bundle[indicator][param])

(* ----------------------------- preset store ----------------------------- *)

\* C16: after saveCustomPreset(X, p, d) for a non-empty name X, a built-in
\* preset's name included, getPresetParams(X) returns the parameters p.
C16_SaveThenGet ==
  event.op = "handleSavePreset" =>
    LET got == getPresetParams(presets, event.arg[1])
    IN got.found /\ Deref(heap, got.params) = Deref(heap, localParams)

RECURSIVE NamesOf(_)
NamesOf(list) == IF list = <<>> THEN <<>> ELSE <<Head(list).name>> \o NamesOf(Tail(list))

\* the array read back from localStorage, empty when there is no item
Persisted(item) == IF item.present THEN item.json ELSE <<>>

\* what deleteCustomPreset(name) does to the custom presets: none of that
\* name is listed or persisted afterwards, the others are the same presets
\* in the same order, and the built-in presets stay listed first
DeleteRemovesCustomOnly(name) ==
  LET before == customOf(presets)
      after == customOf(presets')
  IN /\ \A n \in 1 .. Len(after) : after[n].name # name
     /\ \A n \in 1 .. Len(Persisted(storage')) : Persisted(storage')[n].name # name
     /\ \A n \in 1 .. Len(before) :
          before[n].name # name => \E m \in 1 .. Len(after) : after[m] = before[n]
     /\ \A m \in 1 .. Len(after) : \E n \in 1 .. Len(before) : before[n] = after[m]
     /\ \A m1, m2 \in 1 .. Len(after) :
          m1 < m2 => \E n1, n2 \in 1 .. Len(before) :
                       n1 < n2 /\ before[n1] = after[m1] /\ before[n2] = after[m2]
     /\ Persisted(storage') = stringify(heap', after)
     /\ heap' = heap
     /\ presets' = defaultPresets \o after

\* C17 as claimed: deleteCustomPreset(name) removes only the custom preset of
\* that name, and under the name of a built-in preset the call changes
\* nothing.
C17_DeleteBuiltInNameIsNoOp ==
  [][event'.op = "handleDeletePreset" =>
       /\ DeleteRemovesCustomOnly(event'.arg[1])
       /\ event'.arg[1] \in BuiltInNames =>
            /\ presets' = presets
            /\ Persisted(storage') = Persisted(storage)]_vars

\* C17 amended: deleteCustomPreset(name) removes only the custom preset of
\* that name; under the name of a built-in preset the built-in presets stay
\* listed, and the list and the persisted array change only when a custom
\* preset carries that name too.
C17_DeleteRemovesOnlyCustom ==
  [][event'.op = "handleDeletePreset" =>
       /\ DeleteRemovesCustomOnly(event'.arg[1])
       /\ (/\ event'.arg[1] \in BuiltInNames
           /\ \A n \in 1 .. Len(customOf(presets)) : customOf(presets)[n].name # event'.arg[1]) =>
            /\ presets' = presets
            /\ Persisted(storage') = Persisted(storage)]_vars

\* 'Trend Following' deleted while a custom preset of that name and another
\* custom preset are listed: the other one and the built-in are still there
C17_Witness ==
  /\ event = Event("handleDeletePreset", <<"Trend Following">>)
  /\ NamesOf(presets) = NamesOf(defaultPresets) \o <<"Custom Strategy">>
  /\ NamesOf(Persisted(storage)) = <<"Custom Strategy">>
  /\ steps = 2

\* names in the order they were first given
RECURSIVE InsertionOrder(_, _)
InsertionOrder(names, added) ==
  IF added = <<>> THEN names
  ELSE InsertionOrder(IF \E n \in 1 .. Len(names) : names[n] = Head(added) THEN names
                      ELSE Append(names, Head(added)),
                      Tail(added))

\* the names the last handler called saveCustomPreset with, in call order
SavedBy(e) ==
  IF e.op = "handleSavePreset" THEN e.arg
  ELSE IF e.op \in {"handleImportPresets", "handleImportPresets throws"} THEN NamesOf(e.arg)
  ELSE <<>>

\* C18: after any load, save and delete operations the list is the built-in
\* presets in their order followed by the custom presets in order of first
\* insertion, a save under a custom name already there keeping its place;
\* custom names are unique and the persisted array is the custom part of
\* the list.
C18_ListOrder ==
  [][LET before == NamesOf(customOf(presets))
         after == NamesOf(customOf(presets'))
         kept == IF event'.op = "handleDeletePreset"
                 THEN SelectSeq(before, LAMBDA x : x # event'.arg[1])
                 ELSE before
     IN /\ SubSeq(presets', 1, 3) = defaultPresets
        /\ \A n \in 4 .. Len(presets') : presets'[n].isCustom
        /\ after = InsertionOrder(kept, SavedBy(event'))
        /\ \A m, n \in 1 .. Len(after) : after[m] = after[n] => m = n
        /\ Persisted(storage') = stringify(heap', customOf(presets'))]_vars

(* ------------------------- built-in presets ----------------------------- *)

\* C19: every built-in preset keeps the name, the description and the
\* parameter values it was written with, whatever the preset selections,
\* edits, saves, deletes and imports before.
C19_BuiltInsImmutable ==
  \A n \in 1 .. 3 :
    /\ presets[n] = defaultPresets[n]
    /\ Deref(heap, presets[n].params) = defaultPresetValues[n].values

(* ------------------------- export and import ---------------------------- *)

\* name and parameter values of the presets of a list or of a JSON array
NamedValues(h, list) ==
  {[name |-> list[n].name, values |-> Deref(h, list[n].params)] : n \in 1 .. Len(list)}

NamedValuesOfJson(json) ==
  {[name |-> json[n].name, values |-> json[n].values] : n \in 1 .. Len(json)}

\* C20: importing an exported array of custom presets into a store without
\* custom presets leaves the store with the same custom presets, by name and
\* parameters, however many the export holds.
C20_ExportImportRoundTrip ==
  [][(event'.op = "handleImportPresets" /\ customOf(presets) = <<>>
        /\ (event'.arg \in StoredCustoms \/ (download.present /\ event'.arg = download.json))) =>
       NamedValues(heap', customOf(presets')) = NamedValuesOfJson(event'.arg)]_vars

(* --------------------------- failed imports ----------------------------- *)

\* C21: an import that fails on malformed file content applies nothing: the
\* preset list and the persisted custom presets are what they were before
\* the import.
C21_FailedImportAppliesNothing ==
  [][event'.op = "handleImportPresets throws" =>
       /\ presets' = presets
       /\ storage' = storage]_vars

(* ------------------------ automatic execution --------------------------- *)

\* order id was created and the feeds' prices meet its target
PriceConditionMet(id) ==
  /\ orders[id].owner # ZeroAddress
  /\ \E met \in {checkPriceCondition(priceFeeds, answers, orders[id].tokenIn,
                                    orders[id].tokenOut, orders[id].targetPrice)} :
       ~met.reverted /\ met.result

\* C22: under automation that never stops, an order that was created and
\* not cancelled and whose price condition holds from some point on is
\* eventually EXECUTED, whatever its id, maxOrdersToCheck and the orders of
\* smaller ids.
C22_MetOrdersEventuallyExecuted ==
  \A id \in 1 .. MaxOrders :
    <>[](PriceConditionMet(id) /\ orders[id].status # "CANCELLED") =>
      <>(orders[id].status = "EXECUTED")

(* --------------------------- order life cycle --------------------------- *)

\* a status changes from PENDING to EXECUTED or CANCELLED only, and no
\* escrow was released more than once
ReleasedAtMostOnce ==
  \A id \in OrderIds :
    /\ orders'[id].status # orders[id].status =>
         orders[id].status = "PENDING" /\ orders'[id].status \in {"EXECUTED", "CANCELLED"}
    /\ released'[id].refunded + released'[id].swapped <= 1
    /\ released'[id].refunded + released'[id].swapped =
         IF orders'[id].status = "PENDING" THEN 0 ELSE 1

\* C23 as claimed: a status changes only from PENDING to EXECUTED or to
\* CANCELLED, executeOrder and cancelOrder on an order that is EXECUTED or
\* CANCELLED revert with 'Order not pending', and under any interleaving of
\* cancelOrder, executeOrder and performUpkeep the escrow of an order is
\* released at most once.
C23_FinishedOrdersRevertNotPending ==
  [][/\ ReleasedAtMostOnce
     /\ (call'.fn \in {"executeOrder", "cancelOrder"}
           /\ orders[call'.args[1]].status # "PENDING") =>
          call'.reverted /\ call'.reason = "Order not pending"]_vars

\* C23 amended: a status changes only from PENDING to EXECUTED or to
\* CANCELLED; on an order that is EXECUTED or CANCELLED executeOrder reverts
\* with 'Order not pending', cancelOrder by the order's owner reverts with
\* 'Order not pending' and cancelOrder by any other address reverts with
\* 'Not order owner'; under any interleaving of cancelOrder, executeOrder
\* and performUpkeep the escrow of an order is released at most once.
C23_FinishedOrdersRevert ==
  [][/\ ReleasedAtMostOnce
     /\ (call'.fn \in {"executeOrder", "cancelOrder"}
           /\ orders[call'.args[1]].status # "PENDING") =>
          /\ call'.reverted
          /\ call'.reason =
               IF call'.fn = "cancelOrder" /\ call'.sender # orders[call'.args[1]].owner
               THEN "Not order owner"
               ELSE "Order not pending"]_vars

\* the owner's cancelOrder on the order just executed, reverted, with
\* another order cancelled before
C23_Witness ==
  /\ call.fn = "cancelOrder" /\ call.reverted /\ call.reason = "Order not pending"
  /\ orders[call.args[1]].status = "EXECUTED"
  /\ released[call.args[1]] = [refunded |-> 0, swapped |-> 1]
  /\ \E id \in OrderIds : orders[id].status = "CANCELLED"

(* ------------------------------ cancelOrder ----------------------------- *)

\* C24: cancelOrder(orderId) succeeds only for the order's owner on a
\* PENDING order, and then the status is CANCELLED and exactly amountIn of
\* tokenIn has gone from the DEX to the owner; a call by any other address,
\* the contract owner and ids never created included, reverts with 'Not
\* order owner', and a reverted call leaves the orders and all balances as
\* they were.
C24_CancelOnlyByOwner ==
  [][call'.fn = "cancelOrder" =>
       LET orderId == call'.args[1]
           order == orders[orderId]
       IN IF call'.sender = order.owner /\ order.status = "PENDING"
          THEN /\ ~call'.reverted
               /\ orders' = [orders EXCEPT ![orderId].status = "CANCELLED"]
               /\ balances' = [balances EXCEPT
                                 ![order.tokenIn]["dex"] = @ - order.amountIn,
                                 ![order.tokenIn][order.owner] = @ + order.amountIn]
               /\ nextOrderId' = nextOrderId
          ELSE /\ call'.reverted
               /\ call'.sender # order.owner => call'.reason = "Not order owner"
               /\ orders' = orders
               /\ balances' = balances
               /\ nextOrderId' = nextOrderId]_vars

\* the user's second order cancelled by the user, the first one still in
\* escrow
C24_Witness ==
  /\ call.fn = "cancelOrder" /\ call.sender = "user" /\ call.args = <<2>> /\ ~call.reverted
  /\ orders[2].status = "CANCELLED" /\ orders[2].amountIn = 1
  /\ orders[1].status = "PENDING" /\ orders[1].amountIn = 1
  /\ balances["TokenA"]["user"] = InitialSupply - 1
  /\ balances["TokenA"]["dex"] = 1

(* ----------------------------- executeOrder ----------------------------- *)

\* both feeds are set and answer with positive prices
PriceKnown(order) ==
  /\ order.tokenIn \in priceFeeds /\ order.tokenOut \in priceFeeds
  /\ answers[order.tokenIn] > 0 /\ answers[order.tokenOut] > 0

\* outPrice * 1e18 / inPrice, rounded down
FeedPrice(order) == (answers[order.tokenOut] * PriceScale) \div answers[order.tokenIn]

\* the ids executeOrder was called with in the last call: the id of a direct
\* call, the ids of performData for performUpkeep
ExecuteCalls(c) ==
  IF c.fn = "executeOrder" THEN {c.args[1]}
  ELSE IF c.fn = "performUpkeep"
       THEN {c.args[1].orderIds[n] : n \in 1 .. Len(c.args[1].orderIds)}
  ELSE {}

\* C25: an order becomes EXECUTED only in a call of executeOrder, by any
\* address, made while it is PENDING and the price outPrice * 1e18 / inPrice
\* of the feeds is at least its targetPrice; with the price below the target
\* executeOrder reverts with 'Price condition not met' and the order stays
\* PENDING with its escrow where it was.
C25_ExecutedOnlyAtTarget ==
  [][/\ \A id \in OrderIds :
          (orders'[id].status = "EXECUTED" /\ orders[id].status # "EXECUTED") =>
            /\ id \in ExecuteCalls(call')
            /\ orders[id].status = "PENDING"
            /\ PriceKnown(orders[id])
            /\ FeedPrice(orders[id]) >= orders[id].targetPrice
     /\ (/\ call'.fn = "executeOrder"
         /\ orders[call'.args[1]].status = "PENDING"
         /\ PriceKnown(orders[call'.args[1]])
         /\ FeedPrice(orders[call'.args[1]]) < orders[call'.args[1]].targetPrice) =>
          /\ call'.reverted /\ call'.reason = "Price condition not met"
          /\ orders' = orders
          /\ balances' = balances]_vars

\* the keeper account executed order 1 at the price of one unit against
\* target 2, and the user was paid by the router
C25_Witness ==
  /\ call.fn = "executeOrder" /\ call.sender = "keeper" /\ call.args = <<1>> /\ ~call.reverted
  /\ orders[1].status = "EXECUTED" /\ orders[1].targetPrice = 2
  /\ FeedPrice(orders[1]) = PriceScale
  /\ balances["TokenB"]["user"] = InitialSupply + 1
  /\ balances["TokenA"]["router"] = 1

(* ------------------------------ the keeper ------------------------------ *)

\* C27: checkUpkeep never reverts, and with no order id above
\* lastOrderIdChecked it returns upkeepNeeded = false, whatever
\* maxOrdersToCheck is.
C27_CheckUpkeepNeverReverts ==
  call.fn = "checkUpkeep" =>
    /\ ~call.reverted
    /\ lastOrderIdChecked >= nextOrderId - 1 => call.result[1] = FALSE

\* C28: lastOrderIdChecked never decreases and never exceeds nextOrderId - 1,
\* whoever calls performUpkeep and whatever performData holds.
C28_LastCheckedMonotoneAndBounded ==
  [][/\ lastOrderIdChecked' >= lastOrderIdChecked
     /\ lastOrderIdChecked' <= nextOrderId' - 1]_vars

(* -------------------------------- escrow -------------------------------- *)

\* amountIn summed over the PENDING orders of ids up to id that lock token
RECURSIVE PendingEscrow(_, _, _)
PendingEscrow(ords, token, id) ==
  IF id < 0 THEN 0
  ELSE PendingEscrow(ords, token, id - 1) +
       (IF ords[id].status = "PENDING" /\ ords[id].tokenIn = token THEN ords[id].amountIn
        ELSE 0)

\* C29: in every reachable state the DEX holds of each token exactly the sum
\* of amountIn over the PENDING orders whose tokenIn is that token, and a
\* reverted call changes neither the orders nor any balance.
C29_BalanceIsPendingEscrow ==
  /\ [](\A token \in Tokens :
          balances[token]["dex"] = PendingEscrow(orders, token, MaxOrders + 1))
  /\ [][call'.reverted =>
          /\ orders' = orders
          /\ balances' = balances
          /\ nextOrderId' = nextOrderId]_vars

\* order 1 executed, order 2 still pending and the owner's attempt to
\* cancel order 1 reverted: the DEX holds the escrow of order 2 alone
C29_Witness ==
  /\ call.fn = "cancelOrder" /\ call.args = <<1>> /\ call.reverted
  /\ orders[1].status = "EXECUTED" /\ orders[1].tokenIn = "TokenA"
  /\ orders[2].status = "PENDING" /\ orders[2].tokenIn = "TokenA"
  /\ balances["TokenA"]["dex"] = orders[2].amountIn
  /\ balances["TokenB"]["dex"] = 0

(* ------------------------ recomputed indicators ------------------------- *)

\* C26: after a change of parameters every point carries exactly the fields
\* the from-scratch calculators of the fetch path give for the new
\* parameters: a field is there exactly when its calculator's warm-up has
\* elapsed, with the calculator's value, and no field of an earlier
\* parameter set is left.
C26_RecomputeMatchesCalculators ==
  [][indicatorParams' # indicatorParams =>
       chartData' = enrichedData(barsOf(chartData), Indicators, indicatorParams').data]_vars

(* ---------------------------- edits stay local -------------------------- *)

\* C30: an edit through validateAndUpdate changes neither the params object
\* of the caller nor the module's defaultParams, and Cancel leaves the
\* working parameters equal to the defaults overlaid with the caller's
\* params, which the edits before left as they were.
C30_EditsStayLocal ==
  [][/\ event'.op = "validateAndUpdate" =>
          /\ Deref(heap', params) = Deref(heap, params)
          /\ Deref(heap', defaultBundle) = Deref(heap, defaultBundle)
          /\ Deref(heap', defaultBundle) = defaultParams
     /\ event'.op = "Cancel" =>
          /\ Deref(heap', localParams') = Deref(heap, Spread(defaultBundle, params))
          /\ Deref(heap', defaultBundle) = defaultParams]_vars

====
